---------------------------- MODULE Spec2Model ----------------------------
(***************************************************************************)
(* A model of the resilient acquisition engine of image-fetcher:           *)
(*   - CircuitBreaker, AsyncVideoSource.retry_with_backoff, the search()   *)
(*     of the sources and AsyncVideoSourceManager.search                   *)
(*     (src/video_sources_async.py),                                       *)
(*   - VideoDatabase.add_download, is_duplicate_url, is_duplicate_file and *)
(*     check_rate_limit (src/video_database.py),                           *)
(*   - VideoFetcherPro.download_video_async and fetch_and_process_async    *)
(*     (src/video_fetcher_pro.py),                                         *)
(*   - the output directory of a run and BatchProcessor.process_batch      *)
(*     (src/video_fetcher_pro.py, src/batch_processor.py),                 *)
(*   - CronParser and VideoScheduler (src/video_scheduler.py).             *)
(* Each subsystem has its own specification over the shared variables:     *)
(*   SpecBreaker, SpecRetry, SpecRecover, SpecStore, SpecDownload,         *)
(*   SpecSearch, SpecRateLimit, SpecRun, SpecOutput, SpecCron,             *)
(*   SpecScheduler, SpecAddJob, SpecRemove, SpecReschedule.                *)
(***************************************************************************)
EXTENDS Integers, Sequences, FiniteSets, TLC

VARIABLES
    now,              \* time.time(), in clock ticks (TicksPerSecond per second)
    circuit_breaker,  \* AsyncVideoSource.circuit_breaker, a CircuitBreaker
    lastOp,           \* history: the breaker operation of the last step
    streak,           \* history: call_failed calls in a row since closed/0
    trialsGranted,    \* history: can_attempt() = True since the timeout elapsed
    halfOpenSuccesses, \* history: call_succeeded calls while half-open
    rpc,              \* where the running retry_with_backoff call stands
    params,           \* its arguments max_retries, base_delay, max_delay
    attempt,          \* its loop variable
    coro,             \* the coroutine object it was given
    last_exception,   \* its local last_exception
    slept,            \* history: the delays it has passed to asyncio.sleep
    calls,            \* history: retry_with_backoff calls started so far
    awaits,           \* history: evaluations of "await coro" in this call
    invocations,      \* history: runs of the provider request in this call
    lastAttempt,      \* history: how the latest attempt of this call began
    failed_at,        \* history: when an admitted attempt last failed, or None
    downloads,        \* the committed rows of table downloads; the id is the index
    writer,           \* the connection that holds SQLite's write lock, or NoConn
    txn,              \* per connection: the row inserted and not yet committed
    addResult,        \* per connection: how its latest add_download call ended
    added,            \* history, per URL: add_download calls that returned an id
    rejected,         \* history, per URL: add_download calls that raised
    body,             \* per URL: the bytes its server holds
    has_ffprobe,      \* VideoValidator.has_ffprobe(): is ffprobe installed
    disk,             \* per destination path: the file there, if any
    task,             \* per download task: the locals of download_video_async
    finishOrder,      \* history: the tasks in the order they reached line 268
    manager_sources,  \* AsyncVideoSourceManager.sources: the providers with a key
    msearch,          \* the running call of AsyncVideoSourceManager.search
    results,          \* per provider: the search() task gather() waits for
    rate_limits,      \* the committed row of table rate_limits for the source
    rcall,            \* per connection: where its check_rate_limit call stands
    lastCheck,        \* history: the check_rate_limit call that ended last
    allowed,          \* history: calls that returned True in the stored window
    run,              \* the running fetch_and_process_async call
    dtask,            \* per candidate of the run: its download_with_semaphore task
    semaphore,        \* the value of the run's asyncio.Semaphore
    runs,             \* history: runs started so far
    catalog,          \* per provider: the entries its API holds for the theme
    fetch,            \* per fetch_and_process_async call: its theme and directory
    tree,             \* the directories and files below self.output_dir
    started,          \* history: fetch_and_process_async calls started so far
    cron,             \* the call of CronParser.next_run and what it gave
    jobs,             \* VideoScheduler.jobs; the id of a job is its index
    running,          \* VideoScheduler.running
    thread,           \* VideoScheduler.thread: the loop it names, 0 for None
    loops,            \* the threads of _run_loop that start() has created
    caller,           \* the thread that calls the scheduler: is it in stop()
    lastAdd,          \* history: what the latest add_job call gave
    clock,            \* datetime.now() in whole seconds, where it runs over months
    enables,          \* history: the jobs enable_job has enabled
    removed           \* the jobs remove_job has deleted from VideoScheduler.jobs

breakerVars == <<now, circuit_breaker>>
historyVars == <<lastOp, streak, trialsGranted, halfOpenSuccesses>>
retryVars == <<rpc, params, attempt, coro, last_exception, slept, calls, awaits,
               invocations, lastAttempt, failed_at>>

storeVars == <<downloads, writer, txn, addResult, added, rejected>>

downloadVars == <<body, has_ffprobe, disk, task, finishOrder>>

searchVars == <<manager_sources, msearch, results>>

rateVars == <<rate_limits, rcall, lastCheck, allowed>>

runVars == <<run, dtask, semaphore, runs, catalog>>

outVars == <<fetch, tree, started>>

cronVars == <<cron>>

schedVars == <<jobs, running, thread, loops, caller, lastAdd>>

clockVars == <<clock, enables, removed>>

moreVars == <<outVars, cronVars, schedVars, clockVars>>

laterVars == <<searchVars, rateVars, runVars, moreVars>>

vars == <<breakerVars, historyVars, retryVars, storeVars, downloadVars, laterVars>>

--------------------------------------------------------------------------
(* Time.  time.time() is a float of seconds; the model counts clock ticks  *)
(* of 1/10000 s, the resolution of the jitter term of retry_with_backoff.  *)

TicksPerSecond == 10000

\* Latest clock value the model explores, in seconds.
MaxTime == 125

\* By how many seconds one step of the clock may advance it.
TickSteps == {1, 59}

\* The same between and during the calls of retry_with_backoff: less than
\* recovery_timeout, and recovery_timeout.
RetryTickSteps == {30, 60}

--------------------------------------------------------------------------
(* CircuitBreaker                                                          *)

CLOSED == "closed"
OPEN == "open"
HALF_OPEN == "half_open"

failure_threshold == 5
recovery_timeout == 60
half_open_max_calls == 3

\* last_failure_time = None
None == -1

\* Cap on failure_count, which the code lets grow without limit.
MaxFailures == 7

\* A breaker that an earlier run has left with three failures counted.
NewBreaker_worn ==
    [failure_count |-> 3, last_failure_time |-> 0,
     state |-> CLOSED, half_open_calls |-> 0]

\* CircuitBreaker.__post_init__
NewBreaker ==
    [failure_count |-> 0, last_failure_time |-> None,
     state |-> CLOSED, half_open_calls |-> 0]

\* call_succeeded that closes a half-open breaker but keeps its failure count
call_succeeded_keep(cb) ==
    IF cb.state = HALF_OPEN
    THEN [cb EXCEPT !.state = CLOSED, !.half_open_calls = 0]
    ELSE [cb EXCEPT !.failure_count = 0]

\* CircuitBreaker.call_succeeded
call_succeeded(cb) ==
    IF cb.state = HALF_OPEN
    THEN [cb EXCEPT !.failure_count = 0, !.state = CLOSED, !.half_open_calls = 0]
    ELSE [cb EXCEPT !.failure_count = 0]

\* call_failed with the threshold compared by > instead of >=
call_failed_strict(cb, t) ==
    LET c == [cb EXCEPT !.failure_count = @ + 1, !.last_failure_time = t]
    IN  IF c.state = HALF_OPEN THEN [c EXCEPT !.state = OPEN]
        ELSE IF c.failure_count > failure_threshold THEN [c EXCEPT !.state = OPEN]
        ELSE c

\* CircuitBreaker.call_failed at time t
call_failed(cb, t) ==
    LET c == [cb EXCEPT !.failure_count = @ + 1, !.last_failure_time = t]
    IN  IF c.state = HALF_OPEN THEN [c EXCEPT !.state = OPEN]
        ELSE IF c.failure_count >= failure_threshold THEN [c EXCEPT !.state = OPEN]
        ELSE c

\* can_attempt with the timeout compared by > instead of >=
can_attempt_late(cb, t) ==
    CASE cb.state = CLOSED -> [ret |-> TRUE, cb |-> cb]
      [] cb.state = OPEN ->
            IF t - cb.last_failure_time > recovery_timeout * TicksPerSecond
            THEN [ret |-> TRUE,
                  cb |-> [cb EXCEPT !.state = HALF_OPEN, !.half_open_calls = 0]]
            ELSE [ret |-> FALSE, cb |-> cb]
      [] cb.state = HALF_OPEN ->
            IF cb.half_open_calls < half_open_max_calls
            THEN [ret |-> TRUE, cb |-> [cb EXCEPT !.half_open_calls = @ + 1]]
            ELSE [ret |-> FALSE, cb |-> cb]
      [] OTHER -> [ret |-> FALSE, cb |-> cb]

\* CircuitBreaker.can_attempt at time t: the value returned and the breaker after
can_attempt(cb, t) ==
    CASE cb.state = CLOSED -> [ret |-> TRUE, cb |-> cb]
      [] cb.state = OPEN ->
            IF t - cb.last_failure_time >= recovery_timeout * TicksPerSecond
            THEN [ret |-> TRUE,
                  cb |-> [cb EXCEPT !.state = HALF_OPEN, !.half_open_calls = 0]]
            ELSE [ret |-> FALSE, cb |-> cb]
      [] cb.state = HALF_OPEN ->
            IF cb.half_open_calls < half_open_max_calls
            THEN [ret |-> TRUE, cb |-> [cb EXCEPT !.half_open_calls = @ + 1]]
            ELSE [ret |-> FALSE, cb |-> cb]
      [] OTHER -> [ret |-> FALSE, cb |-> cb]

--------------------------------------------------------------------------
(* AsyncVideoSource.retry_with_backoff                                     *)

\* The defaults of retry_with_backoff: max_retries, base_delay (s), max_delay (s)
DefaultParams == [max_retries |-> 3, base_delay |-> 1, max_delay |-> 30]

\* The arguments the model calls retry_with_backoff with: the defaults, which
\* are what every search() of the repository passes, and a longer call whose
\* delay reaches max_delay.
RetryParams == {DefaultParams, [max_retries |-> 4, base_delay |-> 1, max_delay |-> 3]}

\* Values of hash(str(time.time())) % 100, which lies in 0..99.
JitterSamples == {0, 50, 99}

\* How many retry_with_backoff calls one source receives.
MaxCalls == 3

Min(a, b) == IF a <= b THEN a ELSE b

NoAttempt ==
    [outcome |-> "none", admitted |-> TRUE, pre_failures |-> 0,
     pre_time |-> None, pre_sleeps |-> 0]

\* An attempt that awaits the coroutine whatever can_attempt() returned
attempt_outcome_unguarded(admitted, c) ==
    IF c = "fresh" THEN "invoke" ELSE "reuse_error"

\* Lines 127-130: what one attempt does, given the value of can_attempt() and
\* the state of the coroutine object.  Awaiting a coroutine object that has
\* already run raises RuntimeError without running the request again.
attempt_outcome(admitted, c) ==
    IF ~admitted THEN "breaker_open"
    ELSE IF c = "fresh" THEN "invoke"
    ELSE "reuse_error"

\* The delay doubling once more than the code does
backoff_delay_double(p, a) == Min(p.base_delay * (2 ^ (a + 1)), p.max_delay)

\* Line 140: delay = min(base_delay * (2 ** attempt), max_delay), in seconds
backoff_delay(p, a) == Min(p.base_delay * (2 ^ a), p.max_delay)

\* Lines 141-142: the argument of asyncio.sleep, in ticks, where r is
\* hash(str(time.time())) % 100: delay + r / 1000 * jitter, jitter = delay * 0.1
sleep_ticks(p, a, r) ==
    LET delay == backoff_delay(p, a) * TicksPerSecond
        jitter == delay \div 10
    IN  delay + (r * jitter) \div 1000

\* Lines 134-145: the except branch of attempt a, entered with the breaker cb
\* and the exception exc.
HandleFailure(cb, exc) ==
    /\ last_exception' = exc
    /\ circuit_breaker' = call_failed(cb, now)
    /\ failed_at' = IF exc = "breaker_open" THEN failed_at ELSE now
    /\ IF attempt < params.max_retries - 1
       THEN \E r \in JitterSamples :
                /\ slept' = Append(slept, sleep_ticks(params, attempt, r))
                /\ rpc' = "sleep"
       ELSE /\ rpc' = "raised"
            /\ slept' = slept

--------------------------------------------------------------------------
(* VideoDatabase: table downloads                                          *)

\* The URLs the callers ask for.
Urls == {"u1", "u2"}

\* The SQLite connections, one per thread (get_connection keeps them in
\* threading.local): calls made from one thread run one after the other, calls
\* made from different threads interleave statement by statement.
Conns == {"c1", "c2"}

NoConn == "none"
NoRow == [url |-> "none"]
NULL == "NULL"

\* file_hash IS NULL
NoHash == <<"NULL">>

\* How many add_download calls are made for one URL.
MaxAdds == 3

\* VideoDatabase.hash_url: the SHA-256 digest of the URL, which tells any two
\* URLs of the model apart.
hash_url(u) == <<"sha256", u>>

\* A record that is created as failed
NewRow_failed(source, u) ==
    [source |-> source, url |-> u, url_hash |-> hash_url(u), status |-> "failed",
     file_path |-> NULL, file_hash |-> NoHash, error_message |-> NULL]

\* Lines 217-233: the row add_download inserts.
NewRow(source, u) ==
    [source |-> source, url |-> u, url_hash |-> hash_url(u), status |-> "pending",
     file_path |-> NULL, file_hash |-> NoHash, error_message |-> NULL]

\* A schema whose url_hash column is not declared UNIQUE
unique_violation_off(rows, h) == FALSE

\* Line 54, url_hash TEXT UNIQUE NOT NULL: does a row with url_hash h break it?
unique_violation(rows, h) == \E i \in 1..Len(rows) : rows[i].url_hash = h

\* Lines 250-254, 256-258, 264-266: update_download with a status, a path and
\* an error message; a falsy argument leaves its column alone.
update_download(rows, id, status, path, err) ==
    [rows EXCEPT ![id] =
        [@ EXCEPT !.status = IF status # NULL THEN status ELSE @,
                  !.file_path = IF path # NULL THEN path ELSE @,
                  !.error_message = IF err # NULL THEN err ELSE @]]

\* VideoDatabase.set_file_hash
set_file_hash(rows, id, h) == [rows EXCEPT ![id].file_hash = h]

\* VideoDatabase.hash_file: the SHA-256 digest of the bytes of a file, which
\* tells any two files of the model apart.
hash_file(bytes) == <<"sha256", bytes>>

\* is_duplicate_file that looks only at the rows still pending
is_duplicate_file_pending(rows, h) ==
    \E i \in 1..Len(rows) : rows[i].file_hash = h /\ rows[i].status = "pending"

\* VideoDatabase.is_duplicate_file
is_duplicate_file(rows, h) ==
    \E i \in 1..Len(rows) : rows[i].file_hash = h

\* A lookup that finds no URL recorded
is_duplicate_url_never(rows, u) == FALSE

\* VideoDatabase.is_duplicate_url
is_duplicate_url(rows, u) ==
    \E i \in 1..Len(rows) :
        rows[i].url_hash = hash_url(u) /\ rows[i].status = "completed"

--------------------------------------------------------------------------
(* VideoFetcherPro.download_video_async                                    *)

\* The download tasks of one run, tasks of one event loop: a task gives way
\* to another only where the code awaits.  Task t downloads candidate t.
Tasks == {1, 2}

\* Line 405: the URL task t downloads, each candidate its own.
UrlOf(t) == IF t = 1 THEN "u1" ELSE "u2"

\* Lines 400-402: output_path / f"{safe_theme}_{idx + 1:03d}.mp4"
PathOf(t) == <<"output_path", t>>
Paths == {PathOf(t) : t \in Tasks}

\* Files are sequences of bytes.  GoodA and GoodB are two videos, Big is a
\* video larger than the size limit, ErrorPage is what a server sends with
\* an error status.
GoodA == <<1, 2>>
GoodB == <<1, 3>>
Big == <<1, 2, 4, 4>>
ErrorPage == <<9>>
Bodies == {GoodA, GoodB, Big}

\* The files ffprobe finds a video stream in.
Videos == {GoodA, GoodB, Big}

\* Line 181: max_file_size_mb * 1024 * 1024, in the bytes of the model
max_size == 3

\* Line 233: chunk_size, in the bytes of the model
chunk_size == 1

Absent == [exists |-> FALSE, bytes |-> <<>>]
File(bytes) == [exists |-> TRUE, bytes |-> bytes]

\* What a destination path may hold before the run: nothing, the start of
\* a file, a whole file.
OldFiles == {Absent, File(<<1>>), File(GoodA)}

\* The locals of one download task; old, status1 and status2 are history:
\* the bytes found at the destination and the statuses of the two replies.
NewTask ==
    [pc |-> "queued", download_id |-> 0, downloaded |-> 0, range_from |-> 0,
     mode |-> "wb", rest |-> <<>>, file_hash |-> NoHash, ret |-> "none",
     old |-> <<>>, status1 |-> 0, status2 |-> 0]

\* A download that opens the destination for writing from the start always
open_mode_truncate(downloaded) == "wb"

\* Line 232: mode = 'ab' if downloaded > 0 else 'wb'
open_mode(downloaded) == IF downloaded > 0 THEN "ab" ELSE "wb"

\* The replies a server holding the bytes b may give to a GET whose Range
\* header asks for the bytes from offset from on (0: no Range header): the
\* whole file, with or without a Content-Length; the rest of the file; range
\* not satisfiable; an error status.
Responses(b, from) ==
    {[status |-> 200, content_length |-> n, range_total |-> -1, payload |-> b] :
        n \in {Len(b), 0}}
    \cup (IF from > 0 /\ from < Len(b)
          THEN {[status |-> 206, content_length |-> Len(b) - from, range_total |-> n,
                 payload |-> SubSeq(b, from + 1, Len(b))] : n \in {Len(b), -1}}
          ELSE {})
    \cup (IF from > 0 /\ from >= Len(b)
          THEN {[status |-> 416, content_length |-> 0, range_total |-> -1,
                 payload |-> <<>>]}
          ELSE {})
    \cup {[status |-> 500, content_length |-> Len(ErrorPage), range_total |-> -1,
           payload |-> ErrorPage]}

\* Lines 211-219: total_size from the headers of the first reply
total_size(resp, downloaded) ==
    IF resp.status = 206
    THEN IF resp.range_total # -1 THEN resp.range_total
         ELSE resp.content_length + downloaded
    ELSE resp.content_length

\* VideoValidator.validate_video(...).get('valid')
validate_video(file) == (~has_ffprobe) \/ (file.bytes \in Videos)

\* Lines 295-300: except Exception; lines 291-294: except asyncio.TimeoutError.
\* d is the disk when the exception is raised.
Fail(t, exc, d) ==
    /\ downloads' = update_download(downloads, task[t].download_id, "failed", NULL, exc)
    /\ disk' = IF exc # "Timeout" /\ d[PathOf(t)].exists /\ d[PathOf(t)].bytes = <<>>
               THEN [d EXCEPT ![PathOf(t)] = Absent]
               ELSE d
    /\ task' = [task EXCEPT ![t].pc = "done", ![t].ret = "False"]

--------------------------------------------------------------------------
(* AsyncVideoSourceManager.search and the search() of its sources          *)

\* The sources __aenter__ can build, in the order it builds them.
Providers == <<"pexels", "pixabay">>
ProviderNames == {"pexels", "pixabay"}

\* Largest max_results the model passes to AsyncVideoSourceManager.search.
MaxResults == 3

Max(a, b) == IF a >= b THEN a ELSE b

\* s[:n]
Take(s, n) == SubSeq(s, 1, Min(n, Len(s)))

\* One entry of the JSON a provider replies with; url = "none": the entry
\* lists no video file.
Hit(u, m, dur, w, h) ==
    [url |-> u, url_medium |-> m, duration |-> dur, width |-> w, height |-> h]

HitA == Hit("u1", "u1", 10, 1920, 1080)
HitB == Hit("u2", "m2", 30, 1920, 1080)
HitShort == Hit("u3", "u3", 2, 640, 360)
HitEmpty == Hit("none", "none", 10, 1920, 1080)

\* The replies of a provider's API: it is the server that applies the
\* filters passed to it, or does not.
Replies == {<<>>, <<HitA, HitB>>, <<HitShort, HitA>>, <<HitEmpty, HitB, HitA, HitShort>>}

\* The keyword filters of a search: bounds on the duration (s) and on the
\* dimensions; None: the bound is not given.
FilterSets ==
    {[min_duration |-> None, max_duration |-> None, min_width |-> 1920, min_height |-> 1080],
     [min_duration |-> 5, max_duration |-> 60, min_width |-> 1280, min_height |-> 720]}

\* The values of the argument sources.
SourcesArgs == {"all", "pexels", "pixabay, pexels", "vimeo"}

\* How retry_with_backoff(_search()) may end: with the parsed reply, or
\* raising the provider's error after the last attempt, or raising the
\* breaker's rejection.
SearchOutcomes == {"ok", "provider_error", "breaker_open"}

\* Lines 183-210 and 266-307: the candidates built from the entries of a
\* reply; an entry without a video file is skipped.
RECURSIVE parse_videos(_, _)
parse_videos(p, hits) ==
    IF hits = <<>> THEN <<>>
    ELSE LET h == Head(hits)
             rest == parse_videos(p, Tail(hits))
         IN  IF h.url = "none" THEN rest
             ELSE <<[url |-> h.url, url_medium |-> h.url_medium, source |-> p,
                     duration |-> h.duration, width |-> h.width,
                     height |-> h.height]>> \o rest

\* A search() that hands on what it parsed whatever happened to the request
source_search_leaky(p, outcome, reply, max_results) ==
    Take(parse_videos(p, reply), max_results)

\* AsyncPexelsVideoSource.search and AsyncPixabayVideoSource.search: lines
\* 212-218 and 309-315, videos[:max_results] when retry_with_backoff returns,
\* [] when it raises.
source_search(p, outcome, reply, max_results) ==
    IF outcome = "ok" THEN Take(parse_videos(p, reply), max_results) ELSE <<>>

\* Line 396: [s.strip() for s in sources.split(",")]
source_names(arg) ==
    CASE arg = "pexels" -> <<"pexels">>
      [] arg = "pixabay, pexels" -> <<"pixabay", "pexels">>
      [] arg = "vimeo" -> <<"vimeo">>
      [] OTHER -> <<arg>>

\* Lines 393-401: the sources a search asks, in the order it asks them.
active_sources(cfg, arg) ==
    IF arg = "all"
    THEN SelectSeq(Providers, LAMBDA name : name \in cfg)
    ELSE SelectSeq(source_names(arg), LAMBDA name : name \in cfg)

\* Line 408: per_source = max(1, max_results // len(active_sources))
per_source(max_results, n) == Max(1, max_results \div n)

\* Line 409: request_per_source = per_source * 2
request_per_source(max_results, n) == per_source(max_results, n) * 2

\* Lines 422-427: the lists gather() returned, joined in the order of the
\* sources; an exception in place of a list adds nothing.
RECURSIVE all_videos(_, _)
all_videos(active, res) ==
    IF active = <<>> THEN <<>>
    ELSE (IF res[Head(active)].raised THEN <<>> ELSE res[Head(active)].videos)
         \o all_videos(Tail(active), res)

\* A search that keeps the last max_results candidates instead of the first
manager_search_tail(active, res, max_results) ==
    SubSeq(all_videos(active, res),
           Len(all_videos(active, res)) - Min(max_results, Len(all_videos(active, res))) + 1,
           Len(all_videos(active, res)))

\* Lines 392-431 once every source has answered: what search returns.
manager_search(active, res, max_results) ==
    Take(all_videos(active, res), max_results)

NoResult == [pc |-> "idle", outcome |-> "none", raised |-> FALSE, videos |-> <<>>]
PendingResult == [NoResult EXCEPT !.pc = "running"]

NoSearch ==
    [pc |-> "idle", max_results |-> 0, active |-> <<>>, request |-> 0,
     filters |-> [min_duration |-> None, max_duration |-> None,
                  min_width |-> None, min_height |-> None],
     ret |-> <<>>]

--------------------------------------------------------------------------
(* VideoDatabase.check_rate_limit: table rate_limits, one source           *)

\* The arguments max_requests and window_seconds of the calls of the model.
max_requests == 2
window_seconds == 2

\* Latest clock value, in seconds, at which the limiter is called: two
\* windows and the second after them.
RateMaxTime == 2 * window_seconds + 1

\* By how many half seconds one step of the clock advances it between the
\* statements of check_rate_limit.
RateTickSteps == {1, 2}

\* No row for the source.
NoRate == [exists |-> FALSE, requests_count |-> 0, window_start |-> None]

\* CURRENT_TIMESTAMP at time t: 'YYYY-MM-DD HH:MM:SS', the clock cut to whole
\* seconds.
current_timestamp(t) == (t \div TicksPerSecond) * TicksPerSecond

\* Lines 400-403: the row INSERT OR IGNORE adds when the source has none;
\* window_start takes its default.
fresh_rate(t) ==
    [exists |-> TRUE, requests_count |-> 0, window_start |-> current_timestamp(t)]

\* Line 408: (julianday('now') - julianday(window_start)) * 86400
elapsed_since(t, window_start) == t - window_start

\* Line 416: row['elapsed'] > window_seconds
window_expired(elapsed) == elapsed > window_seconds * TicksPerSecond

\* A database file that any number of connections may write at once
write_lock_free_shared(w, c) == TRUE

\* SQLite lets one connection at a time hold the write lock of a database
\* file: may connection c start writing while w holds it?
write_lock_free(w, c) == w = NoConn \/ w = c

NoCall ==
    [pc |-> "idle", ret |-> "none", pending |-> NoRate, row |-> NoRate, elapsed |-> 0]

NoCheck ==
    [conn |-> NoConn, ret |-> "none", expired |-> FALSE, pre_count |-> 0,
     pre_start |-> None]

--------------------------------------------------------------------------
(* VideoFetcherPro.fetch_and_process_async                                 *)

\* Line 386: config "parallel_downloads", in the tasks of the model
parallel_downloads == 2

\* Largest num_videos a run of the model is started with.
MaxVideos == 3

\* How many runs are made on one database file.
MaxRuns == 2

\* A second entry whose medium-quality file is the one of HitB.
HitC == Hit("u4", "m2", 30, 1920, 1080)

\* What the API of a provider may hold for the theme of the runs.
RunReplies == {<<HitA, HitB>>, <<HitB, HitA, HitA>>, <<HitC, HitShort>>}

\* The bytes the server of a download URL sends, the same at every request.
served(u) ==
    CASE u = "u1" -> GoodA
      [] u = "m2" -> GoodB
      [] u = "u3" -> GoodA
      [] OTHER -> Big

\* Lines 359-366: unique_videos, the candidates whose url has no completed
\* record.
RECURSIVE unique_videos(_, _)
unique_videos(rows, videos) ==
    IF videos = <<>> THEN <<>>
    ELSE IF is_duplicate_url(rows, Head(videos).url)
         THEN unique_videos(rows, Tail(videos))
         ELSE <<Head(videos)>> \o unique_videos(rows, Tail(videos))

\* Line 405: url = video.get("url_medium", video.get("url"))
download_url(video) == video.url_medium

\* A semaphore that lets every task in
can_acquire_unbounded(value) == TRUE

\* Line 390, asyncio.Semaphore.acquire: a task enters when the value is positive.
can_acquire(value) == value > 0

\* A run that lists every download, successful or not
manifest_after_every(manifest, success, entry) == Append(manifest, entry)

\* Lines 414-426: metadata["videos"] after a download that returned success.
manifest_after(manifest, success, entry) ==
    IF success THEN Append(manifest, entry) ELSE manifest

NewDownloadTask == [pc |-> "waiting", download_id |-> 0, success |-> FALSE]

\* A gather() that returns with the first task that ends
gather_returns_first(tasks) == \E i \in 1..Len(tasks) : tasks[i].pc = "done"

\* Line 439: await asyncio.gather(*tasks) returns when every task has
\* returned.
gather_returns(tasks) == \A i \in 1..Len(tasks) : tasks[i].pc = "done"

\* No run has been started.  unique, completed_before and reserved are
\* history: the candidates that passed the URL filter, the URLs with a
\* completed record when the run filtered, the URLs given to add_download.
\* writes and written are history too: how often the run has written
\* metadata.json, and the entries it wrote; pending_before are the URLs
\* whose record was pending when the run filtered.
NoRun ==
    [pc |-> "idle", num_videos |-> 0, videos |-> <<>>, skipped |-> 0,
     successful |-> 0, failed |-> 0, manifest |-> <<>>,
     unique |-> <<>>, completed_before |-> {}, reserved |-> <<>>,
     writes |-> 0, written |-> <<>>, pending_before |-> {}]

--------------------------------------------------------------------------
(* The output directory of a run: fetch_and_process_async lines 335-339    *)
(* and download_with_semaphore lines 399-402.                              *)

\* The fetch_and_process_async calls that may be running at a time, as the
\* jobs of BatchProcessor.process_batch run them (sequential or concurrent).
Fetches == {"f1", "f2"}

\* Themes, as the sequences of their characters.
Themes == {<<"a">>, <<"b">>, <<"a", "?">>, <<" ", "a", " ">>}

\* How many directories are asked for in all.
MaxStarts == 2

\* How many files one run writes.
MaxFiles == 1

\* The seconds the clock of the directory names runs.
OutMaxTime == 1

\* Line 305: re.sub(r'[<>:"/\\|?*]', '', name)
RECURSIVE strip_forbidden(_)
strip_forbidden(name) ==
    IF name = <<>> THEN <<>>
    ELSE IF Head(name) \in {"<", ">", ":", "\"", "/", "\\", "|", "?", "*"}
         THEN strip_forbidden(Tail(name))
         ELSE <<Head(name)>> \o strip_forbidden(Tail(name))

\* Lines 306-307: re.sub(r'\s+', '_', name), then re.sub(r'_+', '_', name):
\* every run of blanks and underscores becomes one underscore.
RECURSIVE join_blanks(_)
join_blanks(name) ==
    IF name = <<>> THEN <<>>
    ELSE LET c == IF Head(name) = " " THEN "_" ELSE Head(name)
             rest == join_blanks(Tail(name))
         IN  IF c = "_" /\ rest # <<>> /\ Head(rest) = "_" THEN rest
             ELSE <<c>> \o rest

\* Line 308: name.strip('_')
RECURSIVE strip_underscores(_)
strip_underscores(name) ==
    IF name = <<>> THEN <<>>
    ELSE IF Head(name) = "_" THEN strip_underscores(Tail(name))
    ELSE IF name[Len(name)] = "_" THEN strip_underscores(SubSeq(name, 1, Len(name) - 1))
    ELSE name

\* VideoFetcherPro._sanitize_filename
sanitize_filename(name) == strip_underscores(join_blanks(strip_forbidden(name)))

\* Line 336: datetime.now().strftime("%Y%m%d_%H%M%S"), the clock cut to the
\* whole second.
strftime(t) == t \div TicksPerSecond

\* Line 338: self.output_dir / f"{safe_theme}_{timestamp}"
output_path(theme, t) == <<sanitize_filename(theme), strftime(t)>>

\* Lines 401-402: output_path / f"{safe_theme}_{idx + 1:03d}.mp4"
file_path(dir, theme, idx) == <<dir, sanitize_filename(theme), idx + 1>>

\* No call is running.
NoFetch == [pc |-> "idle", theme |-> <<>>, dir |-> <<>>, idx |-> 0, n |-> 0]

\* Nothing below self.output_dir.  dirs and files are the paths that exist;
\* made and wrote are history, the runs that called mkdir for a path and the
\* runs that opened a file for writing.
NoTree == [dirs |-> {}, files |-> {}, made |-> {}, wrote |-> {}]

--------------------------------------------------------------------------
(* CronParser (src/video_scheduler.py).  A string is the sequence of its   *)
(* characters; a datetime is the number of seconds since                   *)
(* 2024-01-01T00:00:00, a Monday.                                          *)

\* Line 121: range(365 * 24 * 60), the minutes next_run examines; the model
\* cuts the 365 days to ScanDays.
ScanDays == 2

ScanMinutes == ScanDays * 24 * 60

SecondsPerMinute == 60
MinutesPerHour == 60
MinutesPerDay == 1440

\* The days of the months of 2024 and 2025, from January 2024 on.
MonthLengths ==
    <<31, 29, 31, 30, 31, 30, 31, 31, 30, 31, 30, 31,
      31, 28, 31, 30, 31, 30, 31, 31, 30, 31, 30, 31>>

\* The month (counted from January 2024) and the day of the month of the
\* day that lies d days after 2024-01-01.
RECURSIVE month_and_day(_, _)
month_and_day(d, m) ==
    IF d < MonthLengths[m] THEN <<m, d + 1>>
    ELSE month_and_day(d - MonthLengths[m], m + 1)

\* datetime attributes of minute t: dt.minute, dt.hour, dt.day, dt.month and
\* dt.weekday(), which counts Monday as 0.
dt_minute(t) == t % MinutesPerHour
dt_hour(t) == (t \div MinutesPerHour) % 24
dt_day(t) == month_and_day(t \div MinutesPerDay, 1)[2]
dt_month(t) == ((month_and_day(t \div MinutesPerDay, 1)[1] - 1) % 12) + 1
dt_weekday(t) == (t \div MinutesPerDay) % 7

Digits == <<"0", "1", "2", "3", "4", "5", "6", "7", "8", "9">>

digit_value(c) == CHOOSE d \in 0..9 : Digits[d + 1] = c

is_digits(s) ==
    /\ s # <<>>
    /\ \A i \in 1..Len(s) : \E d \in 1..10 : Digits[d] = s[i]

\* The digits of a string that int() reads after its sign.
unsigned(s) == IF s # <<>> /\ Head(s) \in {"-", "+"} THEN Tail(s) ELSE s

\* int(s): does it raise ValueError?  A sign and digits are accepted.
is_int(s) == is_digits(unsigned(s))

RECURSIVE digits_value(_)
digits_value(s) ==
    IF s = <<>> THEN 0
    ELSE digits_value(SubSeq(s, 1, Len(s) - 1)) * 10 + digit_value(s[Len(s)])

\* int(s) of a string int() accepts.
to_int(s) == (IF Head(s) = "-" THEN -1 ELSE 1) * digits_value(unsigned(s))

\* str(n) of n >= 0.
RECURSIVE to_str(_)
to_str(n) ==
    IF n < 10 THEN <<Digits[n + 1]>>
    ELSE to_str(n \div 10) \o <<Digits[(n % 10) + 1]>>

\* c in s
contains(s, c) == \E i \in 1..Len(s) : s[i] = c

\* s.split(c): the pieces between the separators, empty ones included.
RECURSIVE split_on(_, _)
split_on(s, c) ==
    IF ~contains(s, c) THEN <<s>>
    ELSE LET i == CHOOSE k \in 1..Len(s) : s[k] = c /\ \A j \in 1..(k - 1) : s[j] # c
         IN  <<SubSeq(s, 1, i - 1)>> \o split_on(SubSeq(s, i + 1, Len(s)), c)

\* s.strip().split(): the pieces between runs of blanks, none of them empty.
RECURSIVE drop_empty(_)
drop_empty(parts) ==
    IF parts = <<>> THEN <<>>
    ELSE IF Head(parts) = <<>> THEN drop_empty(Tail(parts))
    ELSE <<Head(parts)>> \o drop_empty(Tail(parts))

split_blanks(s) == drop_empty(split_on(s, " "))

\* What a call gives: True, False or an exception.
MATCH == "match"
NOMATCH == "nomatch"
RAISED == "raised"

as_match(b) == IF b THEN MATCH ELSE NOMATCH

\* Python's a % b for a >= 0 and b # 0: the sign of the result is that of b.
py_mod(a, b) == IF b > 0 THEN a % b ELSE 0 - ((0 - a) % (0 - b))

\* Lines 90, 94, 97: the separator that decides how matches_field reads a
\* field that is not "*": a slash before a comma before a dash.
separator(field_value) ==
    IF contains(field_value, "/") THEN "/"
    ELSE IF contains(field_value, ",") THEN ","
    ELSE IF contains(field_value, "-") THEN "-"
    ELSE " "

\* int(s): the integer, or the ValueError.
int_of(s) == IF is_int(s) THEN [ok |-> TRUE, n |-> to_int(s)] ELSE [ok |-> FALSE, n |-> 0]

\* Lines 92, 99, 102: the parts of a field that int() is given.  Of a step
\* only the part after the slash is read.
parts_read(sep, parts) == IF sep = "/" THEN {2} ELSE 1..Len(parts)

\* Lines 93, 100-102: the comparison of a step, a range or an integer, whose
\* parts int() has been given.
compare_values(sep, read, ints, actual_value) ==
    IF \E i \in read : ~ints[i].ok THEN RAISED
    ELSE CASE sep = "/" ->
                IF ints[2].n = 0 THEN RAISED
                ELSE as_match(py_mod(actual_value, ints[2].n) = 0)
           [] sep = "-" ->
                as_match(ints[1].n <= actual_value /\ actual_value <= ints[2].n)
           [] OTHER -> as_match(ints[1].n = actual_value)

\* Lines 90-102: a field that is not "*", split at its separator.  A step and
\* a range must have two parts to be unpacked (lines 92, 99); the items of a
\* list are compared as text (line 96).
compare_parts(sep, parts, actual_value) ==
    IF sep \in {"/", "-"} /\ Len(parts) # 2 THEN RAISED
    ELSE IF sep = ","
    THEN as_match(\E i \in 1..Len(parts) : parts[i] = to_str(actual_value))
    ELSE compare_values(sep, parts_read(sep, parts),
                        [i \in 1..Len(parts) |-> int_of(parts[i])], actual_value)

\* Lines 90-102: a field that is not "*", read by its separator.
read_field(sep, field_value, actual_value) ==
    compare_parts(sep, split_on(field_value, sep), actual_value)

\* Lines 87-102: matches_field
matches_field(field_value, actual_value) ==
    IF field_value = <<"*">> THEN MATCH
    ELSE read_field(separator(field_value), field_value, actual_value)

\* Lines 105-109: the value field i is compared with, of minute t.
actual_value_of(i, t) ==
    CASE i = 1 -> dt_minute(t)
      [] i = 2 -> dt_hour(t)
      [] i = 3 -> dt_day(t)
      [] i = 4 -> dt_month(t)
      [] OTHER -> dt_weekday(t)

\* Lines 104-109: the fields from the i-th on joined by "and", which stops at
\* the first field that does not match or raises.
RECURSIVE matches_from(_, _, _)
RECURSIVE and_then(_, _, _, _)
and_then(outcome, cron_dict, t, i) ==
    IF outcome # MATCH \/ i = 5 THEN outcome
    ELSE matches_from(cron_dict, t, i + 1)

matches_from(cron_dict, t, i) ==
    and_then(matches_field(cron_dict[i], actual_value_of(i, t)), cron_dict, t, i)

\* Lines 84-109: CronParser.matches(cron_dict, dt)
matches(cron_dict, t) == matches_from(cron_dict, t, 1)

\* What next_run gives: a datetime, or a ValueError.
Raised == [ok |-> FALSE, at |-> None]
Returned(t) == [ok |-> TRUE, at |-> t]

\* No minute of an hour or day matched or raised.
Miss == [at |-> None, outcome |-> NOMATCH]

\* The first minute, in order, whose outcome is a match or an exception.
earliest(outcome) ==
    LET hits == {t \in DOMAIN outcome : outcome[t] # NOMATCH}
    IN  IF hits = {} THEN Miss
        ELSE LET first == CHOOSE t \in hits : \A u \in hits : t <= u
             IN  [at |-> first, outcome |-> outcome[first]]

\* Lines 121-126, the minutes from..to of one hour taken in order: the first
\* that matches or raises, and which of the two.
first_hit(cron_dict, from, to) ==
    earliest([t \in from..to |-> matches(cron_dict, t)])

\* The last minute not after `to` of the hour, or of the day, of minute t.
end_of(t, length, to) == Min(to, (t \div length) * length + length - 1)

\* Lines 121-126, the minutes from..to of one day, hour by hour.
RECURSIVE first_hit_of_day(_, _, _)
RECURSIVE or_next_hour(_, _, _, _)
or_next_hour(hit, cron_dict, hour_end, to) ==
    IF hit = Miss THEN first_hit_of_day(cron_dict, hour_end + 1, to) ELSE hit

first_hit_of_day(cron_dict, from, to) ==
    IF from > to THEN Miss
    ELSE or_next_hour(first_hit(cron_dict, from, end_of(from, MinutesPerHour, to)),
                      cron_dict, end_of(from, MinutesPerHour, to), to)

\* Lines 121-128: the loop over the minutes from..to, taken day by day; it
\* returns the first minute that matches, and an exception of matches or
\* the end of the loop raises.
RECURSIVE scan(_, _, _)
RECURSIVE or_next_day(_, _, _, _)
or_next_day(hit, cron_dict, day_end, to) ==
    IF hit = Miss THEN scan(cron_dict, day_end + 1, to)
    ELSE IF hit.outcome = RAISED THEN Raised
    ELSE Returned(hit.at * SecondsPerMinute)

scan(cron_dict, from, to) ==
    IF from > to THEN Raised
    ELSE or_next_day(first_hit_of_day(cron_dict, from, end_of(from, MinutesPerDay, to)),
                     cron_dict, end_of(from, MinutesPerDay, to), to)

\* Lines 63-81: CronParser.parse, which checks the number of fields only:
\* the fields, or <<>> for the ValueError.
five_fields(parts) == IF Len(parts) # 5 THEN <<>> ELSE parts

parse(expression) == five_fields(split_blanks(expression))

\* A scan that starts at the minute of `after`
first_minute_same(after) == after \div SecondsPerMinute

\* Line 118: after.replace(second=0, microsecond=0) + timedelta(minutes=1)
first_minute(after) == (after \div SecondsPerMinute) + 1

\* Lines 116-128: the loop of next_run over the fields parse has given.
scan_from(cron_dict, from) ==
    IF cron_dict = <<>> THEN Raised
    ELSE scan(cron_dict, from, from + ScanMinutes - 1)

\* Lines 112-128: CronParser.next_run(expression, after)
next_run(expression, after) == scan_from(parse(expression), first_minute(after))

\* A field of a cron expression, before it is written as text: *, an
\* integer, a comma list, a dash range, */N, or any other text.
Star == [kind |-> "star", a |-> 0, b |-> 0, text |-> <<>>]
Lit(n) == [kind |-> "int", a |-> n, b |-> 0, text |-> <<>>]
List(m, n) == [kind |-> "list", a |-> m, b |-> n, text |-> <<>>]
Range(m, n) == [kind |-> "range", a |-> m, b |-> n, text |-> <<>>]
Step(n) == [kind |-> "step", a |-> n, b |-> 0, text |-> <<>>]
Raw(s) == [kind |-> "raw", a |-> 0, b |-> 0, text |-> s]

\* The text of a field.
render(f) ==
    CASE f.kind = "star" -> <<"*">>
      [] f.kind = "int" -> to_str(f.a)
      [] f.kind = "list" -> to_str(f.a) \o <<",">> \o to_str(f.b)
      [] f.kind = "range" -> to_str(f.a) \o <<"-">> \o to_str(f.b)
      [] f.kind = "step" -> <<"*", "/">> \o to_str(f.a)
      [] OTHER -> f.text

\* The text of an expression: its fields with a blank between them.
RECURSIVE expression_of(_)
expression_of(fields) ==
    IF fields = <<>> THEN <<>>
    ELSE IF Len(fields) = 1 THEN render(fields[1])
    ELSE render(Head(fields)) \o <<" ">> \o expression_of(Tail(fields))

\* "0 2 * * *"
DailyAtTwo == <<Lit(0), Lit(2), Star, Star, Star>>
\* "*/15 * * * *"
EveryQuarter == <<Step(15), Star, Star, Star, Star>>
\* "* * * * *"
EveryMinute == <<Star, Star, Star, Star, Star>>
\* "30 9-17 * * *"
OfficeHours == <<Lit(30), Range(9, 17), Star, Star, Star>>
\* "0 0 1,15 * *"
TwiceAMonth == <<Lit(0), Lit(0), List(1, 15), Star, Star>>
\* "0 0 * 2 *"
InFebruary == <<Lit(0), Lit(0), Star, Lit(2), Star>>
\* "0 0 * * 2"
OnWeekdayTwo == <<Lit(0), Lit(0), Star, Star, Lit(2)>>
\* "*/7 */5 * * 0-4"
Steps == <<Step(7), Step(5), Star, Star, Range(0, 4)>>
\* "0 0 31 2 *"
Never == <<Lit(0), Lit(0), Lit(31), Lit(2), Star>>
\* "0 2 * *"
FourFields == <<Lit(0), Lit(2), Star, Star>>
\* "* * * * x"
Unparsable == <<Star, Star, Star, Star, Raw(<<"x">>)>>
\* "61 * * * x"
UnparsableLate == <<Lit(61), Star, Star, Star, Raw(<<"x">>)>>

ValidExpressions ==
    {DailyAtTwo, EveryQuarter, EveryMinute, OfficeHours, TwiceAMonth, InFebruary,
     OnWeekdayTwo, Steps, Never}

InvalidExpressions == {FourFields, Unparsable, UnparsableLate}

\* The values of `after`: 2024-01-01T00:00:00 and T00:00:30, T01:59:00,
\* T01:59:30 and T02:00:00 of that day, and 2024-01-31T23:59:30.
Afters == {0, 30, 7140, 7170, 7200, 2678370}

\* No call of next_run yet.
NoCron == [pc |-> "idle", fields |-> <<>>, expression |-> <<>>, after |-> 0,
           result |-> Raised]

--------------------------------------------------------------------------
(* VideoScheduler (src/video_scheduler.py).  datetime.now() is the clock   *)
(* in whole seconds since 2024-01-01T00:00:00.                             *)

ONCE == "once"
DAILY == "daily"
WEEKLY == "weekly"
MONTHLY == "monthly"
CRON == "cron"

\* The kinds of the jobs of the model.
JobKinds == {ONCE, DAILY, CRON}

\* The schedule_time of the jobs that are added: none, or five seconds after
\* the start of the clock.
ScheduleTimes == {None, 5}

\* The cron expressions of the jobs that are added: one that is valid, one
\* with four fields, two with a field that is no integer, one that no
\* minute of the scanned time matches.
JobExpressions == {EveryMinute, FourFields, Unparsable, UnparsableLate, Never}

\* Line 53: max_retries of the jobs of the model (3 by default).
max_retries == 2

\* How many jobs are added.
MaxJobs == 1

\* How many times start() creates a thread.
MaxLoops == 2

\* The seconds the clock of the scheduler runs.
SchedMaxTime == 35

\* How many jobs are added where no loop runs, and until when, in seconds.
MaxAddedJobs == 2
AddMaxTime == 120

\* Line 344: asyncio.sleep(30)
poll_interval == 30

\* Line 376: self.thread.join(timeout=5)
join_timeout == 5

SecondsPerDay == 86400

\* datetime.now()
datetime_now(t) == t \div TicksPerSecond

\* Line 265: next_run.replace(hour=schedule_time.hour, minute=schedule_time.minute)
replace_hour_minute(t, s) ==
    (t \div SecondsPerDay) * SecondsPerDay
        + ((s % SecondsPerDay) \div SecondsPerMinute) * SecondsPerMinute
        + (t % SecondsPerMinute)

\* The first day of the month of t, at the time of day of t
first_of_this_month(t) ==
    t - (month_and_day(t \div SecondsPerDay, 1)[2] - 1) * SecondsPerDay

\* Lines 274-275: now.replace(day=1) + timedelta(days=32), then replace(day=1)
first_of_next_month(t) ==
    LET first == t - (month_and_day(t \div SecondsPerDay, 1)[2] - 1) * SecondsPerDay
        later == first + 32 * SecondsPerDay
    IN  later - (month_and_day(later \div SecondsPerDay, 1)[2] - 1) * SecondsPerDay

\* A ScheduledJob.  cron_expression <<>> is None.
ScheduledJob(kind, schedule_time, cron_expression) ==
    [schedule_type |-> kind, schedule_time |-> schedule_time,
     cron_expression |-> cron_expression, enabled |-> TRUE, last_run |-> None,
     next_run |-> None, runs |-> 0, failures |-> 0, max_retries |-> max_retries]

\* Lines 280-283: what _calculate_next_run makes of the result of next_run.
cron_calculated(result) == [value |-> result.at, logged |-> ~result.ok]

\* Lines 254-285: _calculate_next_run(job) at time t: the value it returns,
\* None when there is no next run or next_run of the cron expression raised,
\* and whether it logged "Invalid cron expression" (lines 280-283).
calculated(job, t) ==
    CASE job.schedule_type = ONCE ->
            [value |-> IF job.schedule_time # None /\ job.schedule_time > t
                       THEN job.schedule_time ELSE None,
             logged |-> FALSE]
      [] job.schedule_type = DAILY ->
            LET first == IF job.schedule_time # None THEN job.schedule_time ELSE t
                next == IF first <= t THEN t + SecondsPerDay ELSE first
            IN  [value |-> IF job.schedule_time # None
                           THEN replace_hour_minute(next, job.schedule_time) ELSE next,
                 logged |-> FALSE]
      [] job.schedule_type = WEEKLY -> [value |-> t + 7 * SecondsPerDay, logged |-> FALSE]
      [] job.schedule_type = MONTHLY -> [value |-> first_of_next_month(t), logged |-> FALSE]
      [] OTHER ->
            IF job.cron_expression = <<>> THEN [value |-> None, logged |-> FALSE]
            ELSE cron_calculated(next_run(job.cron_expression, t))

\* A check that runs a job whether it is enabled or not
should_run_any(job, t) ==
    /\ job.next_run # None
    /\ job.failures < job.max_retries
    /\ t >= job.next_run

\* Lines 287-301: what _should_run(job) returns at time t.
should_run(job, t) ==
    /\ job.enabled
    /\ job.next_run # None
    /\ job.failures < job.max_retries
    /\ t >= job.next_run

\* An enable_job that forgets the failures of the job
enable_job_reset(job) == [job EXCEPT !.enabled = TRUE, !.failures = 0]

\* Lines 234-238: the job after enable_job.
enable_job(job) == [job EXCEPT !.enabled = TRUE]

\* Lines 295-299: the job after _should_run, which disables a job that has
\* used up its retries.
after_should_run(job) ==
    IF job.enabled /\ job.next_run # None /\ job.failures >= job.max_retries
    THEN [job EXCEPT !.enabled = FALSE] ELSE job

\* Lines 312-323: the job after an execution whose callback returned.
after_success(job, t) ==
    IF job.schedule_type # ONCE
    THEN [job EXCEPT !.runs = @ + 1, !.last_run = t, !.failures = 0,
                     !.next_run = calculated(job, t).value]
    ELSE [job EXCEPT !.runs = @ + 1, !.last_run = t, !.failures = 0,
                     !.enabled = FALSE]

\* Lines 327-330: the job after an execution whose callback raised.
after_failure(job) == [job EXCEPT !.failures = @ + 1]

\* A thread of _run_loop that start() has created: where it stands, the jobs
\* of list(self.jobs.values()) it has still to look at, the job it executes
\* and the time its sleep ends.
NewLoop == [pc |-> "top", todo |-> <<>>, cur |-> 0, wake |-> 0]

\* The thread that calls start(), stop(), add_job() and enable_job().
NoCaller == [pc |-> "idle", deadline |-> 0]

\* No call of add_job yet.  returned is what add_job gave: "id", "raised".
NoAdd == [job |-> 0, returned |-> "none", error_logged |-> FALSE]

--------------------------------------------------------------------------
(* History of the breaker, kept by every step of SpecBreaker.              *)

NoOp == [op |-> "none", ret |-> TRUE, pre |-> CLOSED, pre_failures |-> 0]

\* The streak of failures since the breaker was closed with no failure.
StreakAfter(op, before, after) ==
    IF after.state = CLOSED /\ after.failure_count = 0 THEN 0
    ELSE IF op = "call_failed" /\ streak >= 0 THEN streak + 1
    ELSE IF op = "can_attempt" /\ after.state = before.state THEN streak
    ELSE -1

\* can_attempt() = True counted from the first call after the timeout, until
\* a success or a failure is recorded.
TrialsAfter(op, ret, before, after) ==
    IF op # "can_attempt" THEN 0
    ELSE IF before.state = OPEN /\ after.state = HALF_OPEN THEN 1
    ELSE IF before.state = HALF_OPEN /\ ret THEN trialsGranted + 1
    ELSE trialsGranted

HalfOpenSuccessesAfter(op, before, after) ==
    IF op = "call_succeeded" /\ before.state = HALF_OPEN THEN halfOpenSuccesses + 1
    ELSE IF after.state = HALF_OPEN THEN
        (IF before.state = HALF_OPEN THEN halfOpenSuccesses ELSE 0)
    ELSE halfOpenSuccesses

Record(op, ret, before, after) ==
    /\ lastOp' = [op |-> op, ret |-> ret, pre |-> before.state,
                  pre_failures |-> before.failure_count]
    /\ streak' = StreakAfter(op, before, after)
    /\ trialsGranted' = TrialsAfter(op, ret, before, after)
    /\ halfOpenSuccesses' = HalfOpenSuccessesAfter(op, before, after)

--------------------------------------------------------------------------
(* SpecBreaker: one breaker, called in any order by its clients.           *)

InitBreaker ==
    /\ now = 0
    /\ circuit_breaker = NewBreaker
    /\ lastOp = NoOp
    /\ streak = 0
    /\ trialsGranted = 0
    /\ halfOpenSuccesses = 0

\* No retry_with_backoff call has been made.
InitRetry ==
    /\ rpc = "idle"
    /\ params = DefaultParams
    /\ attempt = 0
    /\ coro = "fresh"
    /\ last_exception = "None"
    /\ slept = <<>>
    /\ calls = 0
    /\ awaits = 0
    /\ invocations = 0
    /\ lastAttempt = NoAttempt
    /\ failed_at = None

\* _init_database on a new database file: the tables are empty.
InitStore ==
    /\ downloads = <<>>
    /\ writer = NoConn
    /\ txn = [c \in Conns |-> NoRow]
    /\ addResult = [c \in Conns |-> [url |-> "none", ret |-> "none", id |-> 0]]
    /\ added = [u \in Urls |-> 0]
    /\ rejected = [u \in Urls |-> 0]

\* The servers, the destination directory and the tasks before a run.
InitDownload ==
    /\ body = [u \in Urls |-> GoodA]
    /\ has_ffprobe = TRUE
    /\ disk = [p \in Paths |-> Absent]
    /\ task = [t \in Tasks |-> NewTask]
    /\ finishOrder = <<>>

\* The same, over every server, every old content of the directory, with
\* and without ffprobe.
DownloadInputs ==
    /\ body \in [Urls -> Bodies]
    /\ has_ffprobe \in BOOLEAN
    /\ disk \in [Paths -> OldFiles]
    /\ task = [t \in Tasks |-> NewTask]
    /\ finishOrder = <<>>

\* __aenter__ with both keys configured; no search has been made.
InitSearch ==
    /\ manager_sources = ProviderNames
    /\ msearch = NoSearch
    /\ results = [p \in ProviderNames |-> NoResult]

\* The same, over every set of configured keys.
SearchInputs ==
    /\ manager_sources \in SUBSET ProviderNames
    /\ msearch = NoSearch
    /\ results = [p \in ProviderNames |-> NoResult]

\* _init_database on a new database file: table rate_limits is empty and no
\* connection is inside check_rate_limit.
InitRate ==
    /\ rate_limits = NoRate
    /\ rcall = [c \in Conns |-> NoCall]
    /\ lastCheck = NoCheck
    /\ allowed = 0

\* VideoFetcherPro.__init__: no run yet.
InitFetcher ==
    /\ run = NoRun
    /\ dtask = <<>>
    /\ semaphore = parallel_downloads
    /\ runs = 0
    /\ catalog = [p \in ProviderNames |-> <<HitA, HitB>>]

\* The same, over what the providers hold for the theme.
FetcherInputs ==
    /\ run = NoRun
    /\ dtask = <<>>
    /\ semaphore = parallel_downloads
    /\ runs = 0
    /\ catalog \in [ProviderNames -> RunReplies]

\* Nothing has been fetched and self.output_dir is empty.
InitOutput ==
    /\ fetch = [f \in Fetches |-> NoFetch]
    /\ tree = NoTree
    /\ started = 0

\* No call of CronParser.
InitCron == cron = NoCron

\* A call next_run(expression, after) about to be made.
CronInputs ==
    \E fields \in ValidExpressions \cup InvalidExpressions, after \in Afters :
        cron = [NoCron EXCEPT !.pc = "called", !.fields = fields,
                              !.expression = expression_of(fields), !.after = after]

\* VideoScheduler.__init__ with no storage file: no job, not running.
InitScheduler ==
    /\ jobs = <<>>
    /\ running = FALSE
    /\ thread = 0
    /\ loops = <<>>
    /\ caller = NoCaller
    /\ lastAdd = NoAdd
    /\ clock = 0
    /\ enables = {}
    /\ removed = {}

\* The state after construction of what the later specifications add.
InitMore == InitOutput /\ InitCron /\ InitScheduler

Init ==
    /\ InitBreaker /\ InitRetry /\ InitStore /\ InitDownload /\ InitSearch /\ InitRate
    /\ InitFetcher /\ InitMore

Tick ==
    \E d \in TickSteps :
        /\ now + d * TicksPerSecond <= MaxTime * TicksPerSecond
        /\ now' = now + d * TicksPerSecond
        /\ lastOp' = [NoOp EXCEPT !.op = "tick", !.pre = circuit_breaker.state,
                                  !.pre_failures = circuit_breaker.failure_count]
        /\ UNCHANGED <<circuit_breaker, streak, trialsGranted, halfOpenSuccesses>>
        /\ UNCHANGED <<retryVars, storeVars, downloadVars, laterVars>>

CallSucceeded ==
    /\ circuit_breaker' = call_succeeded(circuit_breaker)
    /\ Record("call_succeeded", TRUE, circuit_breaker, circuit_breaker')
    /\ UNCHANGED <<now, retryVars, storeVars, downloadVars, laterVars>>

CallFailed ==
    /\ circuit_breaker.failure_count < MaxFailures
    /\ circuit_breaker' = call_failed(circuit_breaker, now)
    /\ Record("call_failed", TRUE, circuit_breaker, circuit_breaker')
    /\ UNCHANGED <<now, retryVars, storeVars, downloadVars, laterVars>>

CanAttempt ==
    LET r == can_attempt(circuit_breaker, now)
    IN  /\ circuit_breaker' = r.cb
        /\ Record("can_attempt", r.ret, circuit_breaker, r.cb)
        /\ UNCHANGED <<now, retryVars, storeVars, downloadVars, laterVars>>

NextBreaker == Tick \/ CallSucceeded \/ CallFailed \/ CanAttempt

SpecBreaker == Init /\ [][NextBreaker]_vars

--------------------------------------------------------------------------
(* SpecRetry: one source whose search() calls retry_with_backoff, one call *)
(* after the other, on the source's own breaker.                           *)

\* Line 123: a call of retry_with_backoff(coro, max_retries, base_delay, max_delay)
\* with arguments out of choices, as long as the breaker has counted fewer
\* than limit failures and fewer than most calls were made.
retry_call(choices, limit, most) ==
    /\ rpc \in {"idle", "returned", "raised"}
    /\ circuit_breaker.failure_count < limit
    /\ calls < most
    /\ calls' = calls + 1
    /\ \E p \in choices : params' = p
    /\ rpc' = "attempt"
    /\ attempt' = 0
    /\ coro' = "fresh"
    /\ last_exception' = "None"
    /\ slept' = <<>>
    /\ awaits' = 0
    /\ invocations' = 0
    /\ lastAttempt' = NoAttempt
    /\ UNCHANGED <<failed_at, breakerVars, historyVars, storeVars, downloadVars, laterVars>>

RetryCall == retry_call(RetryParams, MaxFailures, MaxCalls)

\* Lines 125-130 (and 134-145 when the attempt fails at once): the head of one
\* iteration, up to the suspension in "await coro".
attempt_step(limit) ==
    /\ rpc = "attempt"
    /\ circuit_breaker.failure_count < limit
    /\ LET r == can_attempt(circuit_breaker, now)
           outcome == attempt_outcome(r.ret, coro)
       IN  /\ lastAttempt' = [outcome |-> outcome,
                              admitted |-> r.ret,
                              pre_failures |-> circuit_breaker.failure_count,
                              pre_time |-> circuit_breaker.last_failure_time,
                              pre_sleeps |-> Len(slept)]
           /\ CASE outcome = "invoke" ->
                     /\ circuit_breaker' = r.cb
                     /\ rpc' = "await"
                     /\ coro' = "running"
                     /\ awaits' = awaits + 1
                     /\ invocations' = invocations + 1
                     /\ UNCHANGED <<last_exception, slept, failed_at>>
                [] outcome = "reuse_error" ->
                     /\ HandleFailure(r.cb, "RuntimeError")
                     /\ awaits' = awaits + 1
                     /\ UNCHANGED <<coro, invocations>>
                [] outcome = "breaker_open" ->
                     /\ HandleFailure(r.cb, "breaker_open")
                     /\ UNCHANGED <<coro, awaits, invocations>>
    /\ UNCHANGED <<now, params, attempt, calls, historyVars, storeVars, downloadVars, laterVars>>

Attempt == attempt_step(MaxFailures)

\* Lines 130-132: the provider request returns a result.
ProviderReturn ==
    /\ rpc = "await"
    /\ coro' = "finished"
    /\ circuit_breaker' = call_succeeded(circuit_breaker)
    /\ rpc' = "returned"
    /\ UNCHANGED <<now, params, attempt, last_exception, slept, calls, awaits,
                   invocations, lastAttempt, failed_at, historyVars, storeVars,
                   downloadVars, laterVars>>

\* Lines 130, 134-145: the provider request raises.
provider_raise(limit) ==
    /\ rpc = "await"
    /\ circuit_breaker.failure_count < limit
    /\ coro' = "finished"
    /\ HandleFailure(circuit_breaker, "provider_error")
    /\ UNCHANGED <<now, params, attempt, calls, awaits, invocations, lastAttempt,
                   historyVars, storeVars, downloadVars, laterVars>>

ProviderRaise == provider_raise(MaxFailures)

\* Line 142: asyncio.sleep returns after the delay; the loop goes on.
SleepDone ==
    /\ rpc = "sleep"
    /\ now + slept[Len(slept)] <= MaxTime * TicksPerSecond
    /\ now' = now + slept[Len(slept)]
    /\ attempt' = attempt + 1
    /\ rpc' = "attempt"
    /\ UNCHANGED <<circuit_breaker, params, coro, last_exception, slept, calls,
                   awaits, invocations, lastAttempt, failed_at, historyVars, storeVars,
                   downloadVars, laterVars>>

\* Time passes between two calls and while the provider request is awaited.
RetryTick ==
    /\ rpc \in {"idle", "returned", "raised", "await"}
    /\ \E d \in RetryTickSteps :
        /\ now + d * TicksPerSecond <= MaxTime * TicksPerSecond
        /\ now' = now + d * TicksPerSecond
    /\ UNCHANGED <<circuit_breaker, historyVars, retryVars, storeVars, downloadVars, laterVars>>

NextRetry ==
    RetryCall \/ Attempt \/ ProviderReturn \/ ProviderRaise \/ SleepDone \/ RetryTick

SpecRetry == Init /\ [][NextRetry]_vars

--------------------------------------------------------------------------
(* SpecRecover: the same source, called with the default arguments often   *)
(* enough for its breaker to open and to be called again while it is open. *)

\* Failures the breaker counts, and calls of retry_with_backoff, at most.
MaxRecoverFailures == 10

MaxRecoverCalls == 4

RecoverCall == retry_call({DefaultParams}, MaxRecoverFailures, MaxRecoverCalls)

RecoverAttempt == attempt_step(MaxRecoverFailures)

RecoverRaise == provider_raise(MaxRecoverFailures)

NextRecover ==
    RecoverCall \/ RecoverAttempt \/ ProviderReturn \/ RecoverRaise \/ SleepDone \/ RetryTick

SpecRecover == Init /\ [][NextRecover]_vars

--------------------------------------------------------------------------
(* SpecStore: threads, each on its own connection, call add_download and   *)
(* update_download on one database file.                                   *)

\* Lines 213-233: INSERT INTO downloads on connection c.  SQLite lets one
\* connection write at a time: the INSERT waits while another connection holds
\* the write lock.  A row that breaks UNIQUE(url_hash) raises IntegrityError,
\* get_connection rolls back and add_download raises.
AddDownloadInsert(c, source, u) ==
    /\ txn[c] = NoRow
    /\ writer = NoConn
    /\ added[u] + rejected[u] < MaxAdds
    /\ IF unique_violation(downloads, hash_url(u))
       THEN /\ addResult' = [addResult EXCEPT ![c] = [url |-> u, ret |-> "IntegrityError", id |-> 0]]
            /\ rejected' = [rejected EXCEPT ![u] = @ + 1]
            /\ UNCHANGED <<txn, writer>>
       ELSE /\ txn' = [txn EXCEPT ![c] = NewRow(source, u)]
            /\ writer' = c
            /\ addResult' = [addResult EXCEPT ![c] = [url |-> u, ret |-> "none", id |-> 0]]
            /\ UNCHANGED rejected
    /\ UNCHANGED <<downloads, added>>

\* Lines 234-235: conn.commit() and return cursor.lastrowid.
AddDownloadCommit(c) ==
    /\ txn[c] # NoRow
    /\ writer = c
    /\ downloads' = Append(downloads, txn[c])
    /\ addResult' = [addResult EXCEPT ![c] = [url |-> txn[c].url, ret |-> "id", id |-> Len(downloads) + 1]]
    /\ added' = [added EXCEPT ![txn[c].url] = @ + 1]
    /\ txn' = [txn EXCEPT ![c] = NoRow]
    /\ writer' = NoConn
    /\ UNCHANGED rejected

\* VideoDatabase.update_download(id, status=...), UPDATE and commit.
UpdateDownload(c, id, status) ==
    /\ txn[c] = NoRow
    /\ writer = NoConn
    /\ downloads[id].status # status
    /\ downloads' = update_download(downloads, id, status, NULL, NULL)
    /\ UNCHANGED <<writer, txn, addResult, added, rejected>>

StoreAdd ==
    \E c \in Conns, u \in Urls :
        /\ AddDownloadInsert(c, "pexels", u)
        /\ UNCHANGED <<breakerVars, historyVars, retryVars, downloadVars, laterVars>>

StoreCommit ==
    \E c \in Conns :
        /\ AddDownloadCommit(c)
        /\ UNCHANGED <<breakerVars, historyVars, retryVars, downloadVars, laterVars>>

StoreUpdate ==
    \E c \in Conns, id \in 1..Len(downloads), st \in {"completed", "failed", "skipped"} :
        /\ UpdateDownload(c, id, st)
        /\ UNCHANGED <<breakerVars, historyVars, retryVars, downloadVars, laterVars>>

NextStore == StoreAdd \/ StoreCommit \/ StoreUpdate

SpecStore == Init /\ [][NextStore]_vars

--------------------------------------------------------------------------
(* SpecDownload: the download tasks of one run, from add_download on.      *)

otherThanDownload == <<breakerVars, historyVars, retryVars, writer, txn, addResult,
                       added, rejected, body, has_ffprobe, laterVars>>

\* download_with_semaphore lines 392-408 and download_video_async lines
\* 181-195: the row is reserved (an IntegrityError ends the task), the size
\* of an old file becomes the offset of the Range header, the GET is sent.
Begin(t) ==
    /\ task[t].pc = "queued"
    /\ IF unique_violation(downloads, hash_url(UrlOf(t)))
       THEN /\ task' = [task EXCEPT ![t].pc = "raised", ![t].ret = "IntegrityError"]
            /\ UNCHANGED downloads
       ELSE LET old == disk[PathOf(t)]
                size == IF old.exists THEN Len(old.bytes) ELSE 0
            IN  /\ downloads' = Append(downloads, NewRow("pexels", UrlOf(t)))
                /\ task' = [task EXCEPT ![t].pc = "get1",
                                        ![t].download_id = Len(downloads) + 1,
                                        ![t].downloaded = size,
                                        ![t].range_from = size,
                                        ![t].old = old.bytes]
    /\ UNCHANGED <<disk, finishOrder, otherThanDownload>>

\* Lines 195-235: the first reply arrives.
FirstReply(t) ==
    /\ task[t].pc = "get1"
    /\ \E resp \in Responses(body[UrlOf(t)], task[t].range_from) :
        LET me == task[t]
            restart == me.downloaded > 0 /\ resp.status # 206
            downloaded == IF restart THEN 0 ELSE me.downloaded
            d == IF restart THEN [disk EXCEPT ![PathOf(t)] = Absent] ELSE disk
        IN  IF me.downloaded > 0 /\ resp.status = 416
            THEN /\ task' = [task EXCEPT ![t].pc = "done", ![t].ret = "True"]
                 /\ UNCHANGED <<downloads, disk>>
            ELSE IF resp.status >= 400
            THEN Fail(t, "ClientResponseError", d)
            ELSE IF total_size(resp, downloaded) > max_size
            THEN /\ downloads' = update_download(downloads, me.download_id,
                                                 "failed", NULL, "File too large")
                 /\ disk' = d
                 /\ task' = [task EXCEPT ![t].pc = "done", ![t].ret = "False"]
            ELSE /\ task' = [task EXCEPT ![t].pc = "get2",
                                         ![t].downloaded = downloaded,
                                         ![t].mode = open_mode(downloaded),
                                         ![t].status1 = resp.status]
                 /\ disk' = d
                 /\ UNCHANGED downloads
    /\ UNCHANGED <<finishOrder, otherThanDownload>>

\* Lines 237-239: the reply to the second GET, sent with the same headers,
\* arrives, whatever its status, and the destination is opened in the mode.
SecondReply(t) ==
    /\ task[t].pc = "get2"
    /\ \E resp \in Responses(body[UrlOf(t)], task[t].range_from) :
        /\ task' = [task EXCEPT ![t].pc = "stream", ![t].rest = resp.payload,
                                ![t].status2 = resp.status]
        /\ disk' = IF task[t].mode = "wb" \/ ~disk[PathOf(t)].exists
                   THEN [disk EXCEPT ![PathOf(t)] = File(<<>>)]
                   ELSE disk
    /\ UNCHANGED <<downloads, finishOrder, otherThanDownload>>

\* Lines 240-242: one chunk is read and written.
Chunk(t) ==
    /\ task[t].pc = "stream"
    /\ task[t].rest # <<>>
    /\ LET n == Min(chunk_size, Len(task[t].rest))
       IN  /\ disk' = [disk EXCEPT ![PathOf(t)].bytes = @ \o SubSeq(task[t].rest, 1, n)]
           /\ task' = [task EXCEPT ![t].rest = SubSeq(@, n + 1, Len(@)),
                                   ![t].downloaded = @ + n]
    /\ UNCHANGED <<downloads, finishOrder, otherThanDownload>>

\* Lines 291-300: a request times out or the connection breaks, while the
\* task waits for a reply or for a chunk.
NetworkError(t) ==
    /\ task[t].pc \in {"get1", "get2", "stream"}
    /\ \E exc \in {"Timeout", "ClientError"} : Fail(t, exc, disk)
    /\ UNCHANGED <<finishOrder, otherThanDownload>>

\* Lines 247-289: the stream has ended; the file is validated, hashed,
\* looked up among the recorded hashes and recorded.  No await: the other
\* tasks of the event loop do not run in between.
Finish(t) ==
    /\ task[t].pc = "stream"
    /\ task[t].rest = <<>>
    /\ LET me == task[t]
           file == disk[PathOf(t)]
           h == hash_file(file.bytes)
       IN  IF ~validate_video(file)
           THEN /\ disk' = [disk EXCEPT ![PathOf(t)] = Absent]
                /\ downloads' = update_download(downloads, me.download_id,
                                                "failed", NULL, "Validation failed")
                /\ task' = [task EXCEPT ![t].pc = "done", ![t].ret = "False"]
                /\ UNCHANGED finishOrder
           ELSE IF is_duplicate_file(downloads, h)
           THEN /\ disk' = [disk EXCEPT ![PathOf(t)] = Absent]
                /\ downloads' = update_download(downloads, me.download_id,
                                                "skipped", NULL, "Duplicate file")
                /\ task' = [task EXCEPT ![t].pc = "done", ![t].ret = "False",
                                        ![t].file_hash = h]
                /\ finishOrder' = Append(finishOrder, t)
           ELSE /\ downloads' = set_file_hash(
                                   update_download(downloads, me.download_id,
                                                   "completed", PathOf(t), NULL),
                                   me.download_id, h)
                /\ task' = [task EXCEPT ![t].pc = "done", ![t].ret = "True",
                                        ![t].file_hash = h]
                /\ finishOrder' = Append(finishOrder, t)
                /\ UNCHANGED disk
    /\ UNCHANGED otherThanDownload

NextDownload ==
    \E t \in Tasks :
        \/ Begin(t)
        \/ FirstReply(t)
        \/ SecondReply(t)
        \/ Chunk(t)
        \/ NetworkError(t)
        \/ Finish(t)

InitRun ==
    InitBreaker /\ InitRetry /\ InitStore /\ DownloadInputs /\ InitSearch /\ InitRate
        /\ InitFetcher /\ InitMore

SpecDownload == InitRun /\ [][NextDownload]_vars

--------------------------------------------------------------------------
(* SpecSearch: calls of AsyncVideoSourceManager.search, one after another. *)

otherThanSearch == <<breakerVars, historyVars, retryVars, storeVars, downloadVars,
                     rateVars, runVars, moreVars>>

\* Lines 392-417: search(query, max_results, sources, **kwargs) up to the
\* gather(); with no active source it returns [] at once.
ManagerSearch ==
    /\ msearch.pc \in {"idle", "returned"}
    /\ \E mr \in 1..MaxResults, arg \in SourcesArgs, f \in FilterSets :
        LET active == active_sources(manager_sources, arg)
        IN  IF active = <<>>
            THEN /\ msearch' = [NoSearch EXCEPT !.pc = "returned", !.max_results = mr,
                                                !.filters = f]
                 /\ results' = [p \in ProviderNames |-> NoResult]
            ELSE /\ msearch' = [pc |-> "gather", max_results |-> mr, active |-> active,
                                request |-> request_per_source(mr, Len(active)),
                                filters |-> f, ret |-> <<>>]
                 /\ results' = [p \in ProviderNames |->
                                   IF \E i \in 1..Len(active) : active[i] = p
                                   THEN PendingResult ELSE NoResult]
    /\ UNCHANGED <<manager_sources, otherThanSearch>>

\* Lines 415, 158-218, 239-315: the search() of source p ends.
SourceSearch(p) ==
    /\ msearch.pc = "gather"
    /\ results[p].pc = "running"
    /\ \E outcome \in SearchOutcomes, reply \in Replies :
        results' = [results EXCEPT ![p] =
                       [pc |-> "done", outcome |-> outcome, raised |-> FALSE,
                        videos |-> source_search(p, outcome, reply, msearch.request)]]
    /\ UNCHANGED <<manager_sources, msearch, otherThanSearch>>

\* Lines 419-431: gather() has every result; search returns.
Gather ==
    /\ msearch.pc = "gather"
    /\ \A p \in ProviderNames : results[p].pc # "running"
    /\ msearch' = [msearch EXCEPT !.pc = "returned",
                                  !.ret = manager_search(msearch.active, results,
                                                         msearch.max_results)]
    /\ UNCHANGED <<manager_sources, results, otherThanSearch>>

NextSearch == ManagerSearch \/ (\E p \in ProviderNames : SourceSearch(p)) \/ Gather

InitSearchRun ==
    InitBreaker /\ InitRetry /\ InitStore /\ InitDownload /\ SearchInputs /\ InitRate
        /\ InitFetcher /\ InitMore

SpecSearch == InitSearchRun /\ [][NextSearch]_vars

--------------------------------------------------------------------------
(* SpecRateLimit: threads, each on its own connection, call                *)
(* check_rate_limit for one source.                                        *)

otherThanRate == <<circuit_breaker, historyVars, retryVars, downloads, txn, addResult,
                   added, rejected, downloadVars, searchVars, runVars, moreVars>>

\* What connection c sees of the row: its own uncommitted insert, or the
\* committed row.
ViewOf(c) == IF rcall[c].pending.exists THEN rcall[c].pending ELSE rate_limits

\* Line 394: a thread calls check_rate_limit(source, max_requests, window_seconds).
RateCall(c) ==
    /\ rcall[c].pc = "idle"
    /\ now <= RateMaxTime * TicksPerSecond
    /\ rcall' = [rcall EXCEPT ![c].pc = "insert", ![c].ret = "none"]
    /\ UNCHANGED <<now, writer, rate_limits, lastCheck, allowed, otherThanRate>>

\* Lines 400-403: INSERT OR IGNORE.  The sqlite3 module begins a transaction
\* before it, and the statement takes the write lock whether or not it adds
\* a row.
RateInsert(c) ==
    /\ rcall[c].pc = "insert"
    /\ write_lock_free(writer, c)
    /\ writer' = c
    /\ rcall' = [rcall EXCEPT ![c].pc = "select",
                              ![c].pending = IF ViewOf(c).exists THEN @
                                             ELSE fresh_rate(now)]
    /\ UNCHANGED <<now, rate_limits, lastCheck, allowed, otherThanRate>>

\* Lines 400-403 and 35-39: another connection has returned from its call
\* with the write lock held and keeps it for longer than the busy timeout of
\* sqlite3.connect; the INSERT raises OperationalError (database is locked),
\* get_connection rolls back and check_rate_limit raises.  While the holder
\* is inside its call the INSERT waits.
RateBusy(c) ==
    /\ rcall[c].pc = "insert"
    /\ ~write_lock_free(writer, c)
    /\ rcall[writer].pc = "idle"
    /\ rcall' = [rcall EXCEPT ![c] = [NoCall EXCEPT !.ret = "OperationalError"]]
    /\ lastCheck' = [conn |-> c, ret |-> "OperationalError",
                     expired |-> rate_limits.exists /\
                                 window_expired(elapsed_since(now, rate_limits.window_start)),
                     pre_count |-> rate_limits.requests_count,
                     pre_start |-> rate_limits.window_start]
    /\ UNCHANGED <<now, writer, rate_limits, allowed, otherThanRate>>

\* Lines 406-413: SELECT requests_count and elapsed; fetchone().
RateSelect(c) ==
    /\ rcall[c].pc = "select"
    /\ rcall' = [rcall EXCEPT ![c].pc = "decide",
                              ![c].row = ViewOf(c),
                              ![c].elapsed = elapsed_since(now, ViewOf(c).window_start)]
    /\ UNCHANGED <<now, writer, rate_limits, lastCheck, allowed, otherThanRate>>

\* Lines 415-439: the window is reset, or the call is refused, or the count
\* is incremented.  Only the first and the last commit; the refusal returns
\* with the transaction, and so the write lock, still held.
RateDecide(c) ==
    /\ rcall[c].pc = "decide"
    /\ LET me == rcall[c]
           check == [conn |-> c, ret |-> "none",
                     expired |-> window_expired(me.elapsed),
                     pre_count |-> me.row.requests_count,
                     pre_start |-> me.row.window_start]
       IN  IF window_expired(me.elapsed)
           THEN /\ rate_limits' = [exists |-> TRUE, requests_count |-> 1,
                                   window_start |-> current_timestamp(now)]
                /\ writer' = NoConn
                /\ rcall' = [rcall EXCEPT ![c] = [NoCall EXCEPT !.ret = "True"]]
                /\ lastCheck' = [check EXCEPT !.ret = "True"]
                /\ allowed' = 1
           ELSE IF me.row.requests_count >= max_requests
           THEN /\ rcall' = [rcall EXCEPT ![c].pc = "idle", ![c].ret = "False"]
                /\ lastCheck' = [check EXCEPT !.ret = "False"]
                /\ UNCHANGED <<rate_limits, writer, allowed>>
           ELSE /\ rate_limits' = [ViewOf(c) EXCEPT !.requests_count = @ + 1]
                /\ writer' = NoConn
                /\ rcall' = [rcall EXCEPT ![c] = [NoCall EXCEPT !.ret = "True"]]
                /\ lastCheck' = [check EXCEPT !.ret = "True"]
                /\ allowed' = allowed + 1
    /\ UNCHANGED <<now, otherThanRate>>

\* Time passes.
RateTick ==
    /\ \E d \in RateTickSteps :
        /\ now + d * (TicksPerSecond \div 2) <= RateMaxTime * TicksPerSecond
        /\ now' = now + d * (TicksPerSecond \div 2)
    /\ UNCHANGED <<writer, rate_limits, rcall, lastCheck, allowed, otherThanRate>>

NextRateLimit ==
    \/ \E c \in Conns :
        \/ RateCall(c)
        \/ RateInsert(c)
        \/ RateBusy(c)
        \/ RateSelect(c)
        \/ RateDecide(c)
    \/ RateTick

SpecRateLimit == Init /\ [][NextRateLimit]_vars

--------------------------------------------------------------------------
(* SpecRun: runs of fetch_and_process_async for one theme, one after       *)
(* another, on one database file.  A provider that answers sends what it   *)
(* holds for the theme, the same in every run, and a later run asks for as *)
(* many videos as the first.                                               *)

otherThanRun == <<breakerVars, historyVars, retryVars, writer, txn, addResult, added,
                  rejected, downloadVars, searchVars, rateVars, moreVars>>

\* The URLs with a completed record.
CompletedUrls(rows) ==
    {rows[i].url : i \in {j \in 1..Len(rows) : rows[j].status = "completed"}}

\* The URLs with a record left pending (add_download, line 225).
PendingUrls(rows) ==
    {rows[i].url : i \in {j \in 1..Len(rows) : rows[j].status = "pending"}}

\* Lines 335-436: a run is started; it searches, filters the candidates by
\* URL, keeps the first num_videos and creates one task for each.  A search
\* that finds nothing ends the run.
RunStart ==
    /\ run.pc \in {"idle", "empty", "written", "raised"}
    /\ runs < MaxRuns
    /\ runs' = runs + 1
    /\ \E n \in (IF runs = 0 THEN 1..MaxVideos ELSE {run.num_videos}),
          o1 \in SearchOutcomes, o2 \in SearchOutcomes :
        LET active == active_sources(manager_sources, "all")
            request == request_per_source(n * 2, Len(active))
            res == [p \in ProviderNames |->
                      [pc |-> "done", outcome |-> IF p = "pexels" THEN o1 ELSE o2,
                       raised |-> FALSE,
                       videos |-> source_search(p, IF p = "pexels" THEN o1 ELSE o2,
                                                catalog[p], request)]]
            found == manager_search(active, res, n * 2)
            unique == unique_videos(downloads, found)
            videos == Take(unique, n)
        IN  IF found = <<>>
            THEN /\ run' = [NoRun EXCEPT !.pc = "empty", !.num_videos = n]
                 /\ dtask' = <<>>
            ELSE /\ run' = [NoRun EXCEPT !.pc = "download", !.num_videos = n,
                                         !.videos = videos,
                                         !.skipped = Len(found) - Len(unique),
                                         !.unique = unique,
                                         !.completed_before = CompletedUrls(downloads),
                                         !.pending_before = PendingUrls(downloads)]
                 /\ dtask' = [i \in 1..Len(videos) |-> NewDownloadTask]
    /\ semaphore' = parallel_downloads
    /\ UNCHANGED <<catalog, downloads, otherThanRun>>

\* Lines 390-408: task i enters the semaphore and calls add_download, then
\* awaits download_video_async.  An IntegrityError of add_download leaves the
\* semaphore and ends the task; gather() raises it in
\* fetch_and_process_async, which ends before the manifest is written, and
\* the tasks still running are cancelled, leaving the semaphore.
Enter(i) ==
    /\ run.pc = "download"
    /\ dtask[i].pc = "waiting"
    /\ can_acquire(semaphore)
    /\ LET video == run.videos[i]
       IN  /\ run' = [run EXCEPT !.reserved = Append(@, video.url),
                                 !.pc = IF unique_violation(downloads, hash_url(video.url))
                                        THEN "raised" ELSE @]
           /\ IF unique_violation(downloads, hash_url(video.url))
              THEN /\ dtask' = [j \in 1..Len(dtask) |->
                                  IF j = i THEN [dtask[j] EXCEPT !.pc = "raised"]
                                  ELSE IF dtask[j].pc \in {"waiting", "downloading"}
                                  THEN [dtask[j] EXCEPT !.pc = "cancelled"]
                                  ELSE dtask[j]]
                   /\ semaphore' = parallel_downloads
                   /\ UNCHANGED downloads
              ELSE /\ downloads' = Append(downloads, NewRow(video.source, video.url))
                   /\ dtask' = [dtask EXCEPT ![i].pc = "downloading",
                                             ![i].download_id = Len(downloads) + 1]
                   /\ semaphore' = semaphore - 1
    /\ UNCHANGED <<runs, catalog, otherThanRun>>

\* Lines 407-431 and download_video_async: the download of task i settles.
\* It fails, or its file is a duplicate of a recorded one and is skipped, or
\* it is recorded completed and listed in the manifest; the task leaves the
\* semaphore.
Settle(i) ==
    /\ run.pc = "download"
    /\ dtask[i].pc = "downloading"
    /\ \E arrived \in BOOLEAN :
        LET video == run.videos[i]
            id == dtask[i].download_id
            h == hash_file(served(download_url(video)))
            success == arrived /\ ~is_duplicate_file(downloads, h)
            entry == [filename |-> i, source |-> video.source,
                      url |-> download_url(video)]
        IN  /\ downloads' =
                  IF ~arrived
                  THEN update_download(downloads, id, "failed", NULL, "ClientError")
                  ELSE IF is_duplicate_file(downloads, h)
                  THEN update_download(downloads, id, "skipped", NULL, "Duplicate file")
                  ELSE set_file_hash(
                           update_download(downloads, id, "completed", <<"output_path", i>>, NULL),
                           id, h)
            /\ run' = [run EXCEPT
                          !.successful = IF success THEN @ + 1 ELSE @,
                          !.failed = IF success THEN @ ELSE @ + 1,
                          !.manifest = manifest_after(@, success, entry)]
            /\ dtask' = [dtask EXCEPT ![i].pc = "done", ![i].success = success]
    /\ semaphore' = semaphore + 1
    /\ UNCHANGED <<runs, catalog, otherThanRun>>

\* Lines 439-443: gather() returns; metadata.json is written.
RunEnd ==
    /\ run.pc = "download"
    /\ gather_returns(dtask)
    /\ run' = [run EXCEPT !.pc = "written", !.writes = @ + 1,
                          !.written = run.manifest]
    /\ UNCHANGED <<downloads, dtask, semaphore, runs, catalog, otherThanRun>>

NextRun ==
    \/ RunStart
    \/ \E i \in 1..Len(dtask) : Enter(i) \/ Settle(i)
    \/ RunEnd

InitFetcherRun ==
    InitBreaker /\ InitRetry /\ InitStore /\ InitDownload /\ InitSearch /\ InitRate
        /\ FetcherInputs /\ InitMore

SpecRun == InitFetcherRun /\ [][NextRun]_vars

--------------------------------------------------------------------------
(* SpecOutput: fetch_and_process_async calls of one VideoFetcherPro, one   *)
(* after another or at the same time, and the directories and files they   *)
(* create below self.output_dir.                                           *)

otherThanOutput == <<circuit_breaker, historyVars, retryVars, storeVars, downloadVars,
                     searchVars, rateVars, runVars, cronVars, schedVars, clockVars>>

\* Lines 335-339: a call computes the name of its directory from the theme
\* and the clock and creates it; mkdir(exist_ok=True) accepts a directory
\* that exists.
OutStart(f) ==
    /\ fetch[f].pc \in {"idle", "done"}
    /\ started < MaxStarts
    /\ started' = started + 1
    /\ \E theme \in Themes :
        LET dir == output_path(theme, now)
        IN  /\ fetch' = [fetch EXCEPT ![f] = [pc |-> "running", theme |-> theme,
                                              dir |-> dir, idx |-> 0, n |-> started + 1]]
            /\ tree' = [tree EXCEPT !.dirs = @ \cup {dir},
                                    !.made = @ \cup {<<dir, started + 1>>}]
    /\ UNCHANGED <<now, otherThanOutput>>

\* Lines 399-413: the task of candidate idx names its file and
\* download_video_async opens it for writing.
OutWrite(f) ==
    /\ fetch[f].pc = "running"
    /\ fetch[f].idx < MaxFiles
    /\ LET path == file_path(fetch[f].dir, fetch[f].theme, fetch[f].idx)
       IN  tree' = [tree EXCEPT !.files = @ \cup {path},
                                !.wrote = @ \cup {<<path, fetch[f].n>>}]
    /\ fetch' = [fetch EXCEPT ![f].idx = @ + 1]
    /\ UNCHANGED <<now, started, otherThanOutput>>

\* Lines 439-448: the call returns its directory.
OutReturn(f) ==
    /\ fetch[f].pc = "running"
    /\ fetch' = [fetch EXCEPT ![f].pc = "done"]
    /\ UNCHANGED <<now, tree, started, otherThanOutput>>

\* Half a second passes.
OutTick ==
    /\ now + TicksPerSecond \div 2 <= OutMaxTime * TicksPerSecond
    /\ now' = now + TicksPerSecond \div 2
    /\ UNCHANGED <<fetch, tree, started, otherThanOutput>>

NextOutput ==
    \/ \E f \in Fetches : OutStart(f) \/ OutWrite(f) \/ OutReturn(f)
    \/ OutTick

SpecOutput == Init /\ [][NextOutput]_vars

--------------------------------------------------------------------------
(* SpecCron: one call CronParser.next_run(expression, after).              *)

otherThanCron == <<breakerVars, historyVars, retryVars, storeVars, downloadVars,
                   searchVars, rateVars, runVars, outVars, schedVars, clockVars>>

\* Lines 116-118: parse splits the expression and raises unless it has five
\* fields.
CronParse ==
    /\ cron.pc = "called"
    /\ cron' = [cron EXCEPT !.pc = IF parse(cron.expression) = <<>>
                                   THEN "raised" ELSE "parsed"]
    /\ UNCHANGED otherThanCron

\* Lines 118-128: the loop returns the first minute that matches, or raises.
CronScan ==
    /\ cron.pc = "parsed"
    /\ \E result \in {next_run(cron.expression, cron.after)} :
          cron' = [cron EXCEPT !.pc = IF result.ok THEN "returned" ELSE "raised",
                               !.result = result]
    /\ UNCHANGED otherThanCron

NextCron == CronParse \/ CronScan

InitCronRun ==
    InitBreaker /\ InitRetry /\ InitStore /\ InitDownload /\ InitSearch /\ InitRate
        /\ InitFetcher /\ InitOutput /\ CronInputs /\ InitScheduler

SpecCron == InitCronRun /\ [][NextCron]_vars

--------------------------------------------------------------------------
(* SpecScheduler: one VideoScheduler; a thread of the application calls    *)
(* add_job, enable_job, start and stop, and every start() that finds the   *)
(* scheduler stopped creates a thread that runs _run_loop.                 *)

otherThanScheduler == <<circuit_breaker, historyVars, retryVars, storeVars, downloadVars,
                        searchVars, rateVars, runVars, outVars, cronVars, clockVars>>

\* The same without the clock in seconds and the histories kept beside it.
otherThanReschedule == <<circuit_breaker, historyVars, retryVars, storeVars, downloadVars,
                         searchVars, rateVars, runVars, outVars, cronVars>>

\* Lines 210-223: add_job(job) with no id given, for a job of one of the
\* kinds, schedule times and cron expressions.  It returns the id whatever
\* _calculate_next_run gave.
add_job(kinds, times, expressions, limit) ==
    /\ caller.pc = "idle"
    /\ Len(jobs) < limit
    /\ \E kind \in kinds, schedule_time \in times, fields \in expressions :
        /\ kind = CRON => schedule_time = None
        /\ kind = DAILY => schedule_time # None
        /\ kind # CRON => fields = EveryMinute
        /\ \E job \in {ScheduledJob(kind, schedule_time,
                                     IF kind = CRON THEN expression_of(fields) ELSE <<>>)} :
             \E next \in {calculated(job, datetime_now(now))} :
                /\ jobs' = Append(jobs, [job EXCEPT !.next_run = next.value])
                /\ lastAdd' = [job |-> Len(jobs) + 1, returned |-> "id",
                               error_logged |-> next.logged]
    /\ UNCHANGED <<now, running, thread, loops, caller, otherThanScheduler>>

\* add_job of a job that runs once or daily at a time that is given.
AddJob == add_job({ONCE, DAILY}, ScheduleTimes \ {None}, {EveryMinute}, MaxJobs)

\* Lines 234-238: enable_job(job_id)
EnableJob(j) ==
    /\ caller.pc = "idle"
    /\ j \notin removed
    /\ ~jobs[j].enabled
    /\ jobs' = [jobs EXCEPT ![j] = enable_job(@)]
    /\ UNCHANGED <<now, running, thread, loops, caller, lastAdd, otherThanScheduler>>

\* Lines 352-370: start(); a scheduler that is running is left alone.
Start ==
    /\ caller.pc = "idle"
    /\ Len(loops) < MaxLoops
    /\ IF running
       THEN UNCHANGED <<running, loops, thread>>
       ELSE /\ running' = TRUE
            /\ loops' = Append(loops, NewLoop)
            /\ thread' = Len(loops) + 1
    /\ UNCHANGED <<now, jobs, caller, lastAdd, otherThanScheduler>>

\* Lines 372-376: stop() of a running scheduler clears running and waits
\* for self.thread, at most join_timeout seconds.
StopCall ==
    /\ caller.pc = "idle"
    /\ running
    /\ running' = FALSE
    /\ caller' = IF thread # 0
                 THEN [pc |-> "joining", deadline |-> datetime_now(now) + join_timeout]
                 ELSE caller
    /\ UNCHANGED <<now, jobs, thread, loops, lastAdd, otherThanScheduler>>

\* Lines 376-377: join returns when the thread has ended or the timeout has
\* passed.
StopReturn ==
    /\ caller.pc = "joining"
    /\ loops[thread].pc = "ended" \/ datetime_now(now) >= caller.deadline
    /\ caller' = NoCaller
    /\ UNCHANGED <<now, jobs, running, thread, loops, lastAdd, otherThanScheduler>>

\* Line 338: list(self.jobs.values()), the jobs that have not been removed.
job_values == SelectSeq([i \in 1..Len(jobs) |-> i], LAMBDA i : i \notin removed)

\* Lines 336-339: "while self.running" at the start of a tick; a loop that
\* goes on takes list(self.jobs.values()).
LoopTop(l) ==
    /\ loops[l].pc = "top"
    /\ loops' = [loops EXCEPT ![l] =
                    IF running
                    THEN [@ EXCEPT !.pc = "check", !.todo = job_values]
                    ELSE [@ EXCEPT !.pc = "ended"]]
    /\ UNCHANGED <<now, jobs, running, thread, caller, lastAdd, otherThanScheduler>>

\* Lines 339-344: the loop looks at its next job, _should_run decides, and a
\* job that should run is executed; with no job left the loop sleeps.
LoopCheck(l) ==
    /\ loops[l].pc = "check"
    /\ IF loops[l].todo = <<>>
       THEN /\ loops' = [loops EXCEPT ![l].pc = "sleep",
                                      ![l].wake = datetime_now(now) + poll_interval]
            /\ UNCHANGED jobs
       ELSE LET j == Head(loops[l].todo)
                runs_now == should_run(jobs[j], datetime_now(now))
            IN  /\ jobs' = [jobs EXCEPT ![j] = after_should_run(@)]
                /\ loops' = [loops EXCEPT ![l] =
                               [@ EXCEPT !.pc = IF runs_now THEN "exec" ELSE "check",
                                         !.todo = Tail(@),
                                         !.cur = IF runs_now THEN j ELSE 0]]
    /\ UNCHANGED <<now, running, thread, caller, lastAdd, otherThanScheduler>>

\* Lines 309-325: the callback returns.
LoopExecReturn(l) ==
    /\ loops[l].pc = "exec"
    /\ jobs' = [jobs EXCEPT ![loops[l].cur] = after_success(@, datetime_now(now))]
    /\ loops' = [loops EXCEPT ![l].pc = "check", ![l].cur = 0]
    /\ UNCHANGED <<now, running, thread, caller, lastAdd, otherThanScheduler>>

\* Lines 327-330: the callback raises.
LoopExecRaise(l) ==
    /\ loops[l].pc = "exec"
    /\ jobs' = [jobs EXCEPT ![loops[l].cur] = after_failure(@)]
    /\ loops' = [loops EXCEPT ![l].pc = "check", ![l].cur = 0]
    /\ UNCHANGED <<now, running, thread, caller, lastAdd, otherThanScheduler>>

\* Line 344: the sleep of the loop ends.
LoopWake(l) ==
    /\ loops[l].pc = "sleep"
    /\ datetime_now(now) >= loops[l].wake
    /\ loops' = [loops EXCEPT ![l].pc = "top", ![l].wake = 0]
    /\ UNCHANGED <<now, jobs, running, thread, caller, lastAdd, otherThanScheduler>>

\* Must something happen before the clock moves?  A loop between its sleeps
\* that is not executing a job, a sleep that has ended, a join that returns.
Urgent ==
    \/ \E l \in 1..Len(loops) :
          \/ loops[l].pc \in {"top", "check"}
          \/ loops[l].pc = "sleep" /\ datetime_now(now) >= loops[l].wake
    \/ caller.pc = "joining"
          /\ (loops[thread].pc = "ended" \/ datetime_now(now) >= caller.deadline)

\* The instants after t at which something is due: the end of a sleep, the
\* end of the wait of stop(), the next run of a job.
DueAfter(t) ==
    {loops[l].wake : l \in {k \in 1..Len(loops) : loops[k].pc = "sleep"}}
    \cup (IF caller.pc = "joining" THEN {caller.deadline} ELSE {})
    \cup {jobs[j].next_run :
             j \in {k \in 1..Len(jobs) : jobs[k].next_run # None /\ jobs[k].next_run > t}}

\* Time passes until the next instant at which something is due.
SchedTick ==
    /\ ~Urgent
    /\ \E t \in DueAfter(datetime_now(now)) :
          /\ t <= SchedMaxTime
          /\ \A u \in DueAfter(datetime_now(now)) : t <= u
          /\ now' = t * TicksPerSecond
    /\ UNCHANGED <<jobs, running, thread, loops, caller, lastAdd, otherThanScheduler>>

NextScheduler ==
    \/ AddJob
    \/ \E j \in 1..Len(jobs) : EnableJob(j)
    \/ Start
    \/ StopCall
    \/ StopReturn
    \/ \E l \in 1..Len(loops) :
          LoopTop(l) \/ LoopCheck(l) \/ LoopExecReturn(l) \/ LoopExecRaise(l) \/ LoopWake(l)
    \/ SchedTick

SpecScheduler == Init /\ [][NextScheduler]_vars

--------------------------------------------------------------------------
(* SpecAddJob: add_job of jobs of every kind on a scheduler that has not   *)
(* been started.                                                           *)

\* add_job of a job of any kind, its cron expression valid or not.
AddAnyJob == add_job(JobKinds, ScheduleTimes, JobExpressions, MaxAddedJobs)

\* A minute passes.
AddTick ==
    /\ datetime_now(now) + SecondsPerMinute <= AddMaxTime
    /\ now' = now + SecondsPerMinute * TicksPerSecond
    /\ UNCHANGED <<schedVars, otherThanScheduler>>

NextAddJob ==
    \/ AddAnyJob
    \/ AddTick

SpecAddJob == Init /\ [][NextAddJob]_vars

--------------------------------------------------------------------------
(* SpecRemove: one poll loop over two jobs, and remove_job.                *)

\* add_job of a job that runs once, at a time that is given, to a scheduler
\* with at most one job.
AddOnceJob == add_job({ONCE}, ScheduleTimes \ {None}, {EveryMinute}, 2)

\* Lines 225-232: remove_job(job_id) of a job the scheduler holds.
RemoveJob(j) ==
    /\ caller.pc = "idle"
    /\ j \notin removed
    /\ removed' = removed \cup {j}
    /\ UNCHANGED <<now, schedVars, clock, enables, otherThanReschedule>>

NextRemove ==
    \/ AddOnceJob
    \/ \E j \in 1..Len(jobs) : RemoveJob(j)
    \/ Start
    \/ \E l \in 1..Len(loops) :
          LoopTop(l) \/ LoopCheck(l) \/ LoopExecReturn(l) \/ LoopExecRaise(l) \/ LoopWake(l)
    \/ SchedTick

SpecRemove == Init /\ [][NextRemove]_vars

--------------------------------------------------------------------------
(* SpecReschedule: one recurring job, added to an empty scheduler, and the *)
(* executions of it that a poll loop makes, each taken as one step from    *)
(* _should_run to the end of _execute_job.  The clock is in whole seconds  *)
(* from 2024-01-01 00:00:00, a Monday.                                     *)

\* How many times the job is executed successfully.
MaxExecutions == 2

\* When add_job is called: at midnight, three seconds later, at 10:16:40.
AddTimes == {0, 3, 37000}

\* The schedule_time of the job: none, 00:00:05 and 09:00:00 of the first day.
RecurScheduleTimes == {None, 5, 32400}

\* By how many seconds a tick of the loop comes after the next_run of the
\* job: less than the poll interval.
Lateness == {0, 10}

\* For how many seconds the callback of the job runs.
Durations == {0, 70}

\* The cron expressions of the recurring jobs.
RecurExpressions == {EveryMinute, EveryQuarter, DailyAtTwo}

\* The recurring jobs that are added.
RecurringJobs ==
    {ScheduledJob(kind, schedule_time, <<>>) :
        kind \in {DAILY, WEEKLY, MONTHLY}, schedule_time \in RecurScheduleTimes}
    \cup {ScheduledJob(CRON, None, expression_of(fields)) : fields \in RecurExpressions}

\* Lines 210-223: add_job of a recurring job at time `at`, to a scheduler
\* with no job.
AddRecurringJob(job, at) ==
    /\ jobs = <<>>
    /\ clock' = at
    /\ \E next \in {calculated(job, at)} :
          /\ jobs' = <<[job EXCEPT !.next_run = next.value]>>
          /\ lastAdd' = [job |-> 1, returned |-> "id", error_logged |-> next.logged]
    /\ UNCHANGED <<now, running, thread, loops, caller, enables, removed, otherThanReschedule>>

\* Lines 340-342 and 303-325: a tick finds that job j should run, and the
\* callback returns d seconds later.
ExecuteJob(j, d) ==
    /\ jobs[j].runs < MaxExecutions
    /\ should_run(jobs[j], clock)
    /\ clock' = clock + d
    /\ jobs' = [jobs EXCEPT ![j] = after_success(@, clock + d)]
    /\ UNCHANGED <<now, running, thread, loops, caller, lastAdd, enables, removed,
                   otherThanReschedule>>

\* Lines 340-342 and 327-330: the same, and the callback raises.
ExecuteJobRaises(j, d) ==
    /\ jobs[j].runs < MaxExecutions
    /\ should_run(jobs[j], clock)
    /\ clock' = clock + d
    /\ jobs' = [jobs EXCEPT ![j] = after_failure(@)]
    /\ UNCHANGED <<now, running, thread, loops, caller, lastAdd, enables, removed,
                   otherThanReschedule>>

\* Lines 340 and 295-299: a tick finds that job j has used up its retries
\* and disables it.
DisableExhausted(j) ==
    /\ ~should_run(jobs[j], clock)
    /\ after_should_run(jobs[j]) # jobs[j]
    /\ jobs' = [jobs EXCEPT ![j] = after_should_run(@)]
    /\ UNCHANGED <<now, running, thread, loops, caller, lastAdd, clock, enables, removed,
                   otherThanReschedule>>

\* Lines 234-238: enable_job(job_id) of a job that is disabled.
ReEnableJob(j) ==
    /\ j \notin removed
    /\ ~jobs[j].enabled
    /\ jobs' = [jobs EXCEPT ![j] = enable_job(@)]
    /\ enables' = enables \cup {j}
    /\ UNCHANGED <<now, running, thread, loops, caller, lastAdd, clock, removed,
                   otherThanReschedule>>

\* Time passes until the tick of the loop that follows the next_run of job j.
RecurTick(j) ==
    /\ jobs[j].next_run # None
    /\ \E late \in Lateness :
          /\ jobs[j].next_run + late > clock
          /\ clock' = jobs[j].next_run + late
    /\ UNCHANGED <<now, schedVars, enables, removed, otherThanReschedule>>

NextReschedule ==
    \/ \E job \in RecurringJobs, at \in AddTimes : AddRecurringJob(job, at)
    \/ \E j \in 1..Len(jobs), d \in Durations : ExecuteJob(j, d)
    \/ \E j \in 1..Len(jobs), d \in Durations : ExecuteJobRaises(j, d)
    \/ \E j \in 1..Len(jobs) : DisableExhausted(j)
    \/ \E j \in 1..Len(jobs) : ReEnableJob(j)
    \/ \E j \in 1..Len(jobs) : RecurTick(j)

SpecReschedule == Init /\ [][NextReschedule]_vars

--------------------------------------------------------------------------
(* Claims about the CircuitBreaker, checked under SpecBreaker.             *)

\* C3: starting from closed with failure count 0, after failure_threshold
\* failures in a row (no success in between) the breaker is open and
\* last_failure_time is set; after fewer failures it is still closed.
C3_OpensAtThreshold ==
    /\ streak >= failure_threshold =>
          /\ circuit_breaker.state = OPEN
          /\ circuit_breaker.last_failure_time # None
    /\ (streak >= 0 /\ streak < failure_threshold) =>
          circuit_breaker.state = CLOSED

C3_Witness ==
    /\ lastOp.op = "call_failed"
    /\ streak = failure_threshold
    /\ circuit_breaker.state = OPEN
    /\ lastOp.pre = CLOSED

\* C4: while the breaker is open, can_attempt() returns false when called
\* less than recovery_timeout after last_failure_time and leaves it open; a
\* can_attempt() at or after last_failure_time + recovery_timeout returns true
\* and moves the breaker to half-open.
C4_OpenRejectsUntilTimeout ==
    (lastOp.op = "can_attempt" /\ lastOp.pre = OPEN) =>
        LET elapsed == now - circuit_breaker.last_failure_time
        IN  /\ elapsed < recovery_timeout * TicksPerSecond =>
                  (~lastOp.ret /\ circuit_breaker.state = OPEN)
            /\ elapsed >= recovery_timeout * TicksPerSecond =>
                  (lastOp.ret /\ circuit_breaker.state = HALF_OPEN)

C4_Witness ==
    /\ lastOp.op = "can_attempt"
    /\ lastOp.pre = OPEN
    /\ now - circuit_breaker.last_failure_time = recovery_timeout * TicksPerSecond
    /\ circuit_breaker.state = HALF_OPEN

\* C5: after the recovery timeout has elapsed on an open breaker, exactly
\* half_open_max_calls calls of can_attempt() return true, counted from the
\* first call after the timeout, while no success or failure is recorded;
\* every further call returns false.
C5_ExactlyMaxTrials ==
    /\ trialsGranted <= half_open_max_calls
    /\ (lastOp.op = "can_attempt" /\ lastOp.pre = HALF_OPEN /\ ~lastOp.ret) =>
          trialsGranted = half_open_max_calls

\* C6 as claimed: a half-open breaker closes only after half_open_max_calls
\* successes in a row recorded while half-open, with failure count 0; fewer
\* successes leave it half-open.
C6_ClosesAfterMaxSuccesses ==
    /\ (lastOp.pre = HALF_OPEN /\ circuit_breaker.state = CLOSED) =>
          /\ halfOpenSuccesses >= half_open_max_calls
          /\ circuit_breaker.failure_count = 0
    /\ (lastOp.op = "call_succeeded" /\ lastOp.pre = HALF_OPEN
            /\ halfOpenSuccesses < half_open_max_calls) =>
          circuit_breaker.state = HALF_OPEN

\* C6 as amended: a half-open breaker moves to closed exactly when a success
\* is recorded while it is half-open, the first one; at the moment it closes
\* the failure count is 0.
C6_ClosesOnFirstSuccess ==
    lastOp.pre = HALF_OPEN =>
        /\ (circuit_breaker.state = CLOSED) <=> (lastOp.op = "call_succeeded")
        /\ circuit_breaker.state = CLOSED =>
              /\ circuit_breaker.failure_count = 0
              /\ halfOpenSuccesses = 1

C6_Witness ==
    /\ lastOp.op = "call_succeeded"
    /\ lastOp.pre = HALF_OPEN
    /\ lastOp.pre_failures >= failure_threshold
    /\ circuit_breaker.state = CLOSED
    /\ halfOpenSuccesses = 1

--------------------------------------------------------------------------
(* Claims about retry_with_backoff, checked under SpecRetry.               *)

\* C7: retry_with_backoff awaits the wrapped provider call at most
\* max_retries times, and only in an attempt whose can_attempt() returned
\* true; the call is never invoked on an attempt the breaker rejected.
C7_CallOnlyWhenAdmitted ==
    /\ awaits <= params.max_retries
    /\ invocations <= awaits
    /\ lastAttempt.outcome \in {"invoke", "reuse_error"} => lastAttempt.admitted
    /\ rpc = "await" => (lastAttempt.outcome = "invoke" /\ lastAttempt.admitted)
    /\ ~lastAttempt.admitted => (lastAttempt.outcome = "breaker_open" /\ rpc # "await")

C7_Witness ==
    /\ lastAttempt.outcome = "breaker_open"
    /\ ~lastAttempt.admitted
    /\ invocations = 1
    /\ awaits = 2
    /\ attempt = params.max_retries - 1

\* C8: when can_attempt() is false, retry_with_backoff fails at once with the
\* breaker-open error: the rejection uses up none of the max_retries attempts
\* and no backoff delay is slept because of it.
C8_RejectFailsImmediately ==
    lastAttempt.outcome = "breaker_open" =>
        /\ rpc = "raised"
        /\ last_exception = "breaker_open"
        /\ Len(slept) = lastAttempt.pre_sleeps

\* C9: a breaker-rejected attempt is not counted as a new failure: it leaves
\* the breaker's failure count and last_failure_time as they were.
C9_RejectNotCounted ==
    lastAttempt.outcome = "breaker_open" =>
        /\ circuit_breaker.failure_count = lastAttempt.pre_failures
        /\ circuit_breaker.last_failure_time = lastAttempt.pre_time

\* The delay of the claim after the n-th failed attempt, without jitter, in ticks.
ExpectedDelay(n) ==
    Min(params.base_delay * (2 ^ (n - 1)), params.max_delay) * TicksPerSecond

\* C10: the delay slept after the n-th failed attempt (n >= 1) is
\* min(base_delay * 2^(n-1), max_delay) plus a jitter of at most 10% of that
\* value; with base_delay = 1 s, max_delay = 30 s, max_retries = 3 the
\* successive delays are non-decreasing and each at most max_delay * 1.1.
C10_BackoffDelays ==
    /\ \A n \in 1..Len(slept) :
          /\ slept[n] >= ExpectedDelay(n)
          /\ (slept[n] - ExpectedDelay(n)) * 10 <= ExpectedDelay(n)
    /\ params = DefaultParams =>
          \A n \in 1..Len(slept) :
              /\ n > 1 => slept[n - 1] <= slept[n]
              /\ slept[n] * 10 <= params.max_delay * TicksPerSecond * 11

C10_Witness ==
    /\ params = DefaultParams
    /\ rpc = "raised"
    /\ Len(slept) = 2
    /\ slept[1] > 1 * TicksPerSecond
    /\ slept[2] > 2 * TicksPerSecond

--------------------------------------------------------------------------
(* Claims about the store, checked under SpecStore.                        *)

RowsOf(u) == {i \in 1..Len(downloads) : downloads[i].url_hash = hash_url(u)}

\* C1: for every URL u and any interleaving of concurrent callers, at most
\* one add_download call for u inserts a row; every later or racing call for
\* u is rejected with the duplicate-URL error and inserts nothing, so table
\* downloads never holds two rows with the same url-hash.
C1_OneReservePerUrl ==
    /\ \A i, j \in 1..Len(downloads) :
          downloads[i].url_hash = downloads[j].url_hash => i = j
    /\ \A u \in Urls :
          /\ added[u] <= 1
          /\ Cardinality(RowsOf(u)) = added[u]
          /\ rejected[u] > 0 => Cardinality(RowsOf(u)) = 1
    /\ \A c \in Conns :
          addResult[c].ret = "IntegrityError" =>
              /\ txn[c] = NoRow
              /\ Cardinality(RowsOf(addResult[c].url)) = 1

C1_Witness ==
    /\ added["u1"] = 1
    /\ rejected["u1"] = 2
    /\ addResult["c1"].url = "u1" /\ addResult["c1"].ret = "IntegrityError"
    /\ addResult["c2"].url = "u1" /\ addResult["c2"].ret = "IntegrityError"
    /\ \E i \in RowsOf("u1") : downloads[i].status = "failed"

--------------------------------------------------------------------------
(* Claims about the downloads, checked under SpecDownload.                 *)

RowOf(t) == downloads[task[t].download_id]

\* C2: if two distinct URLs deliver byte-identical files, then in any
\* interleaving of the two download tasks the one that finishes second is
\* recorded with status skipped (duplicate content) and its file is deleted
\* from disk; only the first is recorded completed.
C2_SecondIdenticalSkipped ==
    \A i, j \in 1..Len(finishOrder) :
        LET first == finishOrder[i]
            second == finishOrder[j]
        IN  (i < j /\ task[first].file_hash = task[second].file_hash) =>
                /\ UrlOf(first) # UrlOf(second)
                /\ RowOf(first).status = "completed"
                /\ RowOf(first).file_hash = task[first].file_hash
                /\ disk[PathOf(first)] = File(task[first].file_hash[2])
                /\ RowOf(second).status = "skipped"
                /\ RowOf(second).error_message = "Duplicate file"
                /\ task[second].ret = "False"
                /\ ~disk[PathOf(second)].exists

C2_Witness ==
    /\ Len(finishOrder) = 2
    /\ body["u1"] = body["u2"]
    /\ task[finishOrder[1]].file_hash = task[finishOrder[2]].file_hash
    /\ task[finishOrder[1]].download_id > task[finishOrder[2]].download_id
    /\ RowOf(finishOrder[2]).status = "skipped"

--------------------------------------------------------------------------
(* Claims about one download, checked under SpecDownload.                  *)

\* C15: a download is aborted and recorded failed as soon as the declared
\* size or the number of bytes accumulated while streaming exceeds the
\* configured maximum; the file on disk never holds more than the maximum
\* number of bytes, also when the server declares no size or a size smaller
\* than what it sends.
C15_SizeNeverExceeded ==
    \A t \in Tasks :
        /\ Len(disk[PathOf(t)].bytes) <= max_size
        /\ task[t].downloaded > max_size =>
              (task[t].pc = "done" /\ RowOf(t).status = "failed")

\* Is old the start of b, and shorter?
PartOf(old, b) ==
    /\ Len(old) > 0
    /\ Len(old) < Len(b)
    /\ SubSeq(b, 1, Len(old)) = old

\* C16: if a partial file of N bytes exists at the destination and the
\* server honours range requests, the download requests the bytes from
\* offset N, appends them to the partial file, and the finished file is
\* byte-identical to the file of an uninterrupted download of the URL.
C16_ResumeCompletesFile ==
    \A t \in Tasks :
        LET me == task[t]
            b == body[UrlOf(t)]
        IN  (PartOf(me.old, b) /\ me.pc \notin {"queued", "raised"}) =>
                /\ me.range_from = Len(me.old)
                /\ me.status1 = 206 =>
                      /\ me.mode = "ab"
                      /\ me.pc = "get2" => disk[PathOf(t)] = File(me.old)
                      /\ me.status2 = 206 =>
                            /\ me.pc = "stream" =>
                                  disk[PathOf(t)].bytes \o me.rest = b
                            /\ me.ret = "True" => disk[PathOf(t)] = File(b)

C16_Witness ==
    \E t \in Tasks :
        /\ task[t].old = <<1>>
        /\ task[t].range_from = 1
        /\ task[t].status1 = 206
        /\ task[t].status2 = 206
        /\ task[t].pc = "done"
        /\ task[t].ret = "True"
        /\ RowOf(t).status = "completed"
        /\ disk[PathOf(t)] = File(body[UrlOf(t)])

--------------------------------------------------------------------------
(* Claims about the search, checked under SpecSearch.                      *)

\* The sources of the running search whose search() failed.
FailedSources ==
    {p \in ProviderNames : results[p].pc = "done" /\ results[p].outcome # "ok"}

\* The active sources without the failed ones, in order.
Survivors == SelectSeq(msearch.active, LAMBDA p : p \notin FailedSources)

RECURSIVE Joined(_)
Joined(ps) == IF ps = <<>> THEN <<>> ELSE results[Head(ps)].videos \o Joined(Tail(ps))

\* C11: a provider whose search fails (retries exhausted, breaker open, any
\* raised error) contributes zero results and its error never propagates:
\* its search() returns an empty list, and the aggregator's search still
\* returns the results of the other providers.
C11_FailedSourceContributesNothing ==
    /\ \A p \in FailedSources : ~results[p].raised /\ results[p].videos = <<>>
    /\ (msearch.pc = "returned" /\ msearch.active # <<>>) =>
          /\ msearch.ret = Take(Joined(Survivors), msearch.max_results)
          /\ \A i \in 1..Len(msearch.ret) : msearch.ret[i].source \notin FailedSources

C11_Witness ==
    /\ msearch.pc = "returned"
    /\ msearch.active = <<"pexels", "pixabay">>
    /\ results["pexels"].outcome = "breaker_open"
    /\ results["pixabay"].outcome = "ok"
    /\ Len(msearch.ret) = 2
    /\ msearch.ret[1].source = "pixabay"

\* Does candidate v lie within the bounds f?
WithinBounds(v, f) ==
    /\ f.min_duration # None => v.duration >= f.min_duration
    /\ f.max_duration # None => v.duration <= f.max_duration
    /\ f.min_width # None => v.width >= f.min_width
    /\ f.min_height # None => v.height >= f.min_height

\* C12: every candidate returned by the aggregator's search satisfies the
\* requested duration and dimension bounds (min/max duration, min width, min
\* height), even when a provider ignored those filters.
C12_ReturnedWithinBounds ==
    msearch.pc = "returned" =>
        \A i \in 1..Len(msearch.ret) : WithinBounds(msearch.ret[i], msearch.filters)

--------------------------------------------------------------------------
(* Claims about the rate limiter, checked under SpecRateLimit.             *)

\* C13: for one provider with limit max_requests and window W, starting from
\* a fresh window, the first max_requests calls of check_rate_limit inside
\* the window return true, every further call inside the window returns
\* false and leaves the request count unchanged, and a call made after the
\* window has expired returns true and resets the count to 1 with a new
\* window start.
C13_WindowContract ==
    lastCheck.ret # "none" =>
        IF lastCheck.expired
        THEN /\ lastCheck.ret = "True"
             /\ rate_limits.requests_count = 1
             /\ rate_limits.window_start > lastCheck.pre_start
        ELSE IF lastCheck.pre_count < max_requests
        THEN /\ lastCheck.ret = "True"
             /\ rate_limits.requests_count = lastCheck.pre_count + 1
             /\ rate_limits.window_start = lastCheck.pre_start
        ELSE /\ lastCheck.ret = "False"
             /\ rate_limits.requests_count = lastCheck.pre_count
             /\ rate_limits.window_start = lastCheck.pre_start

\* C14: check_rate_limit is an atomic read-modify-write: for any interleaving
\* of concurrent callers on the same provider, each on its own connection,
\* the number of calls that return true within one window never exceeds
\* max_requests and the stored request count never exceeds max_requests.
C14_AtomicCheckAndIncrement ==
    /\ allowed <= max_requests
    /\ rate_limits.requests_count <= max_requests
    /\ rate_limits.requests_count = allowed

C14_Witness ==
    /\ rate_limits.requests_count = max_requests - 1
    /\ allowed = max_requests - 1
    /\ rcall["c1"].pc = "decide"
    /\ rcall["c1"].row.requests_count = max_requests - 1
    /\ rcall["c2"].pc = "insert"
    /\ ~window_expired(elapsed_since(now, rate_limits.window_start))

--------------------------------------------------------------------------
(* Claims about a run, checked under SpecRun.                              *)

\* The tasks inside the semaphore.
Holders == {i \in 1..Len(dtask) : dtask[i].pc = "downloading"}

\* C17: at every moment of a run, the number of download tasks holding a
\* concurrency slot (from reserving the record until the download has
\* settled) is at most parallel_downloads, and every task releases its slot
\* when it settles, whether it succeeded or failed.
C17_SlotsBounded ==
    /\ Cardinality(Holders) <= parallel_downloads
    /\ semaphore = parallel_downloads - Cardinality(Holders)

C17_Witness ==
    /\ run.pc = "download"
    /\ Cardinality(Holders) = parallel_downloads
    /\ Len(dtask) > parallel_downloads
    /\ \E i \in 1..Len(dtask) : dtask[i].pc = "done" /\ ~dtask[i].success

\* C18: a candidate whose URL already has a completed record in the store is
\* discarded before it takes a download slot, so re-running the same theme
\* never reserves or downloads a previously completed URL again.
C18_CompletedNeverReserved ==
    /\ \A i \in 1..Len(run.videos) : run.videos[i].url \notin run.completed_before
    /\ \A i \in 1..Len(run.reserved) : run.reserved[i] \notin run.completed_before

C18_Witness ==
    /\ runs = 2
    /\ run.pc = "written"
    /\ "u1" \in run.completed_before
    /\ run.skipped > 0
    /\ Len(run.reserved) > 0
    /\ run.successful > 0

\* C19: a run ends with exactly count successful downloads unless the
\* non-duplicate candidates returned by the search are exhausted first: it
\* never completes more than count, and a download that fails or is skipped
\* is replaced by the next unused candidate while any remain.
C19_CountUnlessExhausted ==
    run.pc = "written" =>
        /\ run.successful <= run.num_videos
        /\ \/ run.successful = run.num_videos
           \/ Len(run.reserved) = Len(run.unique)

InFlight == {i \in 1..Len(dtask) : dtask[i].pc \in {"waiting", "downloading"}}

C22_FailureNeverAbortsRun ==
    /\ run.pc # "raised"
    /\ \A i \in 1..Len(dtask) : dtask[i].pc # "cancelled"

\* C23: a URL whose record in the store is not completed (left pending by
\* an aborted run) can be attempted again by a later run: it passes the
\* dedup check and its new attempt is not rejected.
C23_PendingUrlCanBeRetried ==
    \A i \in 1..Len(dtask) :
        run.videos[i].url \in run.pending_before =>
            /\ ~is_duplicate_url(downloads, run.videos[i].url)
            /\ dtask[i].pc # "raised"

--------------------------------------------------------------------------
(* Claims about the output directory, checked under SpecOutput.            *)

\* C24: every run creates a uniquely named output directory: two runs,
\* including two runs of the same theme started concurrently or within the
\* same second, never share an output directory and never write to the same
\* destination file.
C24_OutputDirectoryUnique ==
    /\ \A a, b \in tree.made : a[1] = b[1] => a[2] = b[2]
    /\ \A a, b \in tree.wrote : a[1] = b[1] => a[2] = b[2]

--------------------------------------------------------------------------
(* Claims about CronParser, checked under SpecCron.                        *)

\* What the fields are said to match: * everything, an integer itself, a
\* list its members, a range its values, */N the multiples of N.
field_matches(f, v) ==
    CASE f.kind = "star" -> TRUE
      [] f.kind = "int" -> v = f.a
      [] f.kind = "list" -> v \in {f.a, f.b}
      [] f.kind = "range" -> f.a <= v /\ v <= f.b
      [] f.kind = "step" -> v % f.a = 0
      [] OTHER -> FALSE

\* All five fields match minute t.
all_match(fields, t) ==
    /\ field_matches(fields[1], dt_minute(t))
    /\ field_matches(fields[2], dt_hour(t))
    /\ field_matches(fields[3], dt_day(t))
    /\ field_matches(fields[4], dt_month(t))
    /\ field_matches(fields[5], dt_weekday(t))

\* The whole minutes strictly later than `after` and within the scanned
\* time of it.
LaterMinutes(after) ==
    {t \in (after \div SecondsPerMinute)..((after \div SecondsPerMinute) + ScanMinutes) :
        t * SecondsPerMinute > after}

\* C30: next_run(expr, after) returns the earliest whole minute strictly
\* later than `after` at which all five fields (minute, hour, day-of-month,
\* month, weekday) match, where a field is *, an integer, a comma list, a
\* dash range, or */N matching when value mod N = 0; "*/15 * * * *" matches
\* exactly the minutes 0, 15, 30, 45; it fails with an error when no minute
\* within the scanned time matches.
C30_NextRunIsEarliestMatch ==
    /\ cron.pc = "returned" /\ cron.fields \in ValidExpressions =>
          /\ cron.result.at % SecondsPerMinute = 0
          /\ cron.result.at > cron.after
          /\ all_match(cron.fields, cron.result.at \div SecondsPerMinute)
          /\ \A t \in LaterMinutes(cron.after) :
                t < cron.result.at \div SecondsPerMinute => ~all_match(cron.fields, t)
    /\ cron.pc = "raised" /\ cron.fields \in ValidExpressions =>
          \A t \in LaterMinutes(cron.after) : ~all_match(cron.fields, t)
    /\ cron.pc \in {"returned", "raised"} /\ cron.fields \in ValidExpressions =>
          (cron.pc = "raised" <=> ~cron.result.ok)
    /\ cron.fields = EveryQuarter =>
          {m \in 0..59 : matches_field(parse(cron.expression)[1], m) = MATCH} = {0, 15, 30, 45}

C30_Witness ==
    /\ cron.pc = "returned"
    /\ cron.fields = DailyAtTwo
    /\ cron.after = 7140
    /\ cron.result = Returned(7200)

--------------------------------------------------------------------------
(* Claims about VideoScheduler.                                            *)

\* The conditions under which a job is to run at time t.
is_due(job, t) ==
    /\ job.enabled
    /\ job.next_run # None
    /\ job.next_run <= t
    /\ job.failures < job.max_retries

\* Does loop l look at a job in this step?
Examines(l) ==
    /\ loops[l].pc = "check"
    /\ loops[l].todo # <<>>
    /\ loops'[l] # loops[l]

Executing(j) == {l \in 1..Len(loops) : loops[l].pc = "exec" /\ loops[l].cur = j}

\* C26: a job whose every execution has failed has been executed at most
\* max_retries times, the executions under way included.
C26_FailingJobRunsMaxRetriesTimes ==
    \A j \in 1..Len(jobs) :
        jobs[j].runs = 0
            => jobs[j].failures + Cardinality(Executing(j)) <= jobs[j].max_retries

\* C27: the scheduler executes a job of kind once successfully at most once.
C27_OnceJobSucceedsOnce ==
    \A j \in 1..Len(jobs) : jobs[j].schedule_type = ONCE => jobs[j].runs <= 1

\* C28: add_job that found the cron expression of its job invalid returns
\* no job id and leaves no enabled job behind.
C28_InvalidCronReportedAtAdd ==
    lastAdd.error_logged
        => /\ lastAdd.returned # "id"
           /\ \A j \in 1..Len(jobs) : j = lastAdd.job => ~jobs[j].enabled

\* The loops that are inside a tick.
InTick == {l \in 1..Len(loops) : loops[l].pc \in {"check", "exec"}}

\* C29: at most one loop is inside a tick, and no job is executed by two
\* loops at once.
C29_OneLoopAtATime ==
    /\ Cardinality(InTick) <= 1
    /\ \A j \in 1..Len(jobs) : Cardinality(Executing(j)) <= 1

--------------------------------------------------------------------------
(* Claims about the rate-limit window.                                     *)

\* C33: the window is reset when the time since window_start is at least
\* the window length, so a call that is refused has measured less than
\* window_seconds since window_start.
C33_ResetAtWindowLength ==
    \A c \in Conns :
        rcall[c].ret = "False" => rcall[c].elapsed < window_seconds * TicksPerSecond

--------------------------------------------------------------------------
(* Claims about the status of a download record, checked under             *)
(* SpecDownload.                                                           *)

\* The statuses a record ends in.
Terminal == {"completed", "failed", "skipped"}

C34_EndsInTerminalStatus ==
    \A t \in Tasks :
        task[t].pc = "done" =>
            /\ RowOf(t).status \in Terminal
            /\ task[t].ret = "True" =>
                  /\ RowOf(t).status = "completed"
                  /\ RowOf(t).file_hash # NoHash

--------------------------------------------------------------------------
(* Claims about the next run of a recurring job, checked under             *)
(* SpecReschedule.                                                         *)

\* Has job j been executed successfully in this step?
Succeeds(j) == Len(jobs') = Len(jobs) /\ jobs'[j].runs = jobs[j].runs + 1

\* The seconds of the month that holds second t.
SecondsOfMonth(t) == MonthLengths[month_and_day(t \div SecondsPerDay, 1)[1]] * SecondsPerDay

\* What the period of a job adds to the time t it was scheduled for.
PeriodAfter(job, t) ==
    CASE job.schedule_type = DAILY -> SecondsPerDay
      [] job.schedule_type = WEEKLY -> 7 * SecondsPerDay
      [] job.schedule_type = MONTHLY -> SecondsOfMonth(t)
      [] OTHER -> 0

\* C32: after a successful execution of a daily, weekly or monthly job its
\* next_run is the next_run it had plus one day, seven days or one month.
C32_NextRunKeepsTimeOfDay ==
    [][\A j \in 1..Len(jobs) :
          (Succeeds(j) /\ jobs[j].schedule_type \in {DAILY, WEEKLY, MONTHLY})
             => jobs'[j].next_run
                   = jobs[j].next_run + PeriodAfter(jobs[j], jobs[j].next_run)
      ]_vars

\* C38: after a successful execution of a recurring job its next_run is
\* unset or later than the moment the execution finished, so the tick that
\* follows does not execute it again.
C38_NextRunAfterFinish ==
    [][\A j \in 1..Len(jobs) :
          (Succeeds(j) /\ jobs[j].schedule_type # ONCE)
             => /\ jobs'[j].next_run = None \/ jobs'[j].next_run > clock'
                /\ ~should_run(jobs'[j], clock')
      ]_vars

\* A cron job has been executed twice, late and with a callback that took
\* its time, and is scheduled again.
C38_Witness ==
    /\ jobs # <<>>
    /\ jobs[1].schedule_type = CRON
    /\ jobs[1].runs = 2
    /\ jobs[1].next_run > clock
    /\ clock % SecondsPerMinute # 0

\* C40: enable_job sets the enabled flag and changes nothing else of the
\* job; a job whose failures have reached max_retries is not executed,
\* enabled or not, and what a tick does to it when it is enabled is to
\* disable it.
C40_EnableKeepsFailures ==
    [][\A j \in 1..Len(jobs) :
          /\ (Len(jobs') = Len(jobs) /\ ~jobs[j].enabled /\ jobs'[j].enabled)
                => jobs'[j] = [jobs[j] EXCEPT !.enabled = TRUE]
          /\ (Len(jobs') = Len(jobs) /\ jobs[j].failures >= jobs[j].max_retries)
                => /\ ~should_run(jobs[j], clock)
                   /\ jobs'[j].runs = jobs[j].runs
                   /\ jobs'[j].failures = jobs[j].failures
                   /\ (jobs[j].enabled /\ jobs'[j] # jobs[j])
                         => jobs'[j] = [jobs[j] EXCEPT !.enabled = FALSE]
      ]_vars

\* A job that used up its retries has been enabled again and is disabled
\* again.
C40_Witness ==
    \E j \in enables :
        /\ ~jobs[j].enabled
        /\ jobs[j].failures = jobs[j].max_retries
        /\ jobs[j].runs = 0

--------------------------------------------------------------------------
(* Claims about remove_job, checked under SpecRemove.                      *)

\* C37: no loop starts to execute a job that remove_job has removed.
C37_RemovedJobNeverStarts ==
    [][\A l \in 1..Len(loops) :
          (loops[l].pc # "exec" /\ loops'[l].pc = "exec") => loops'[l].cur \notin removed
      ]_vars

--------------------------------------------------------------------------
(* Claims about the recovery of the breaker, checked under SpecRecover and *)
(* SpecRetry.                                                              *)

\* An attempt of retry_with_backoff reaches can_attempt() in this step.
Attempts == rpc = "attempt" /\ rpc' # "attempt"

\* C39: an open breaker always recovers: once recovery_timeout has elapsed
\* since the last failed provider call, the next attempt of
\* retry_with_backoff is admitted as a half-open trial, also when callers
\* kept calling at shorter intervals while the breaker was open.
C39_OpenBreakerRecovers ==
    [][(/\ Attempts
        /\ circuit_breaker.state = OPEN
        /\ failed_at # None
        /\ now - failed_at >= recovery_timeout * TicksPerSecond)
       => (lastAttempt'.admitted /\ rpc' = "await")]_vars

\* C35: during one engine run with the default parameters the breaker of a
\* provider stays closed: the run builds a fresh breaker, searches the
\* provider once, and that one retry_with_backoff call records at most
\* max_retries = 3 failures, fewer than failure_threshold = 5.
C35_BreakerStaysClosedInOneRun ==
    (calls = 1 /\ params = DefaultParams) =>
        /\ circuit_breaker.state = CLOSED
        /\ circuit_breaker.failure_count <= params.max_retries
        /\ circuit_breaker.failure_count < failure_threshold
        /\ lastAttempt.outcome # "breaker_open"

C35_Witness ==
    /\ calls = 1
    /\ params = DefaultParams
    /\ rpc = "raised"
    /\ circuit_breaker.failure_count = 3
    /\ circuit_breaker.state = CLOSED

--------------------------------------------------------------------------
(* A claim about the order of the aggregated results, checked under        *)
(* SpecSearch.                                                             *)

\* How many candidates the first k sources of the search have returned.
ReturnedBy(k) == Len(Joined(SubSeq(msearch.active, 1, k)))

\* C36: the aggregator joins the results of the providers in provider order
\* and cuts the list to max_results: a result of the k-th provider is
\* returned only if the providers before it returned fewer than max_results
\* results in total; when the first provider returns at least max_results
\* results, no result of another provider is returned.
C36_ProviderOrderThenTruncation ==
    (msearch.pc = "returned" /\ msearch.active # <<>>) =>
        /\ Len(msearch.ret) = Min(msearch.max_results, ReturnedBy(Len(msearch.active)))
        /\ \A i \in 1..Len(msearch.ret) : msearch.ret[i] = Joined(msearch.active)[i]
        /\ \A k \in 1..Len(msearch.active) :
              (\E i \in 1..Len(msearch.ret) : msearch.ret[i].source = msearch.active[k])
                  => ReturnedBy(k - 1) < msearch.max_results
        /\ ReturnedBy(1) >= msearch.max_results =>
              \A i \in 1..Len(msearch.ret) : msearch.ret[i].source = msearch.active[1]

C36_Witness ==
    /\ msearch.pc = "returned"
    /\ msearch.active = <<"pixabay", "pexels">>
    /\ msearch.max_results = 2
    /\ Len(results["pixabay"].videos) = 2
    /\ Len(results["pexels"].videos) = 2
    /\ Len(msearch.ret) = 2
    /\ \A i \in 1..2 : msearch.ret[i].source = "pixabay"

==========================================================================
